---- MODULE Spec2Model ----
(***************************************************************************)
(* Verification model of the banking batch-ingestion pipeline:             *)
(* sanitizer / date utilities, the transaction row validator, the ATM and  *)
(* UPI processors, the fraud rule engine and BatchIngestionFunction.main.  *)
(*                                                                         *)
(* Representation                                                          *)
(*   - a Python str is a sequence of one-character strings;                *)
(*   - a Python value is a record [t, s, v]: t is the type tag ("none",    *)
(*     "str", "float", "nan", "inf", "err"), s the characters of a str,    *)
(*     v the number of a float in hundredths (or the sign of an infinity); *)
(*   - a datetime is its POSIX time in seconds (UTC);                      *)
(*   - a dict is a function from keys (strs) to Python values.             *)
(***************************************************************************)
EXTENDS Integers, Sequences, FiniteSets, TLC

VARIABLES
    pc,              \* position of the run
    row,             \* the raw row handed to validate_transaction_row
    verrors,         \* errors returned by validate_transaction_row
    vcleaned,        \* cleaned row returned by validate_transaction_row
    parsed_rows,     \* argument of fraud_detection
    alerts,          \* list returned by fraud_detection
    by_customer,     \* the groups fraud_detection scans, as rules 2 to 4 see them
    file_name,       \* file_name of the queue message
    file_text,       \* content of the uploaded blob
    source_type,     \* detect_source_type(file_name)
    metadata,        \* records written by write_metadata_blob, in order
    quarantine,      \* blobs written by write_quarantine_blob, in order
    container,       \* documents upserted into the source's container, in order
    valid_rows,      \* rows the processor passed to fraud_detection
    alert_container, \* documents upserted into the alert container, in order
    result,          \* summary returned by the processor
    message,         \* upload event, then the queue message FileArrivalFunction sends
    client           \* state of the running cosmos_client call, <<>> when none

vars == <<pc, row, verrors, vcleaned, parsed_rows, alerts, by_customer, file_name, file_text,
          source_type, metadata, quarantine, container, valid_rows,
          alert_container, result, message, client>>

-----------------------------------------------------------------------------
(* Python values *)

PyNone == [t |-> "none", s |-> <<>>, v |-> 0]
PyErr == [t |-> "err", s |-> <<>>, v |-> 0]
PyNaN == [t |-> "nan", s |-> <<>>, v |-> 0]
PyStr(s) == [t |-> "str", s |-> s, v |-> 0]
PyFloat(v) == [t |-> "float", s |-> <<>>, v |-> v]
PyInf(sign) == [t |-> "inf", s |-> <<>>, v |-> sign]

\* hundredths per unit: floats are kept in hundredths
Rupee(n) == PyFloat(n * (10 * 10))

\* bool(x)
Truthy(x) ==
    CASE x.t = "none" -> FALSE
      [] x.t = "str" -> x.s # <<>>
      [] x.t = "float" -> x.v # 0
      [] OTHER -> TRUE

\* a or b
PyOr(a, b) == IF Truthy(a) THEN a ELSE b

\* d.get(k)
Get(d, k) == IF k \in DOMAIN d THEN d[k] ELSE PyNone

\* d[k] = x
Put(d, k, x) == [j \in (DOMAIN d) \cup {k} |-> IF j = k THEN x ELSE d[j]]

\* a <= b on floats (IEEE: every comparison with nan is false)
FLeq(a, b) ==
    /\ a.t # "nan"
    /\ b.t # "nan"
    /\ \/ a.t = "inf" /\ a.v = -1
       \/ b.t = "inf" /\ b.v = 1
       \/ a.t = "float" /\ b.t = "float" /\ a.v <= b.v

FLt(a, b) == FLeq(a, b) /\ ~FLeq(b, a)
FGeq(a, b) == FLeq(b, a)

\* a >= b in the place of a > b
FGt_OrEqual(a, b) == FLeq(b, a)

FGt(a, b) == FLt(b, a)

\* a + b on floats
FAdd(a, b) ==
    IF a.t = "nan" \/ b.t = "nan" THEN PyNaN
    ELSE IF a.t = "inf" /\ b.t = "inf" THEN (IF a.v = b.v THEN a ELSE PyNaN)
    ELSE IF a.t = "inf" THEN a
    ELSE IF b.t = "inf" THEN b
    ELSE PyFloat(a.v + b.v)

-----------------------------------------------------------------------------
(* str methods *)

Whitespace == {" ", "\t"}
Digits == {"0", "1", "2", "3", "4", "5", "6", "7", "8", "9"}
DigitSeq == <<"0", "1", "2", "3", "4", "5", "6", "7", "8", "9">>
UpperLetters == <<"A", "B", "C", "D", "E", "F", "G", "H", "I", "J", "K", "L", "M",
                  "N", "O", "P", "Q", "R", "S", "T", "U", "V", "W", "X", "Y", "Z">>
LowerLetters == <<"a", "b", "c", "d", "e", "f", "g", "h", "i", "j", "k", "l", "m",
                  "n", "o", "p", "q", "r", "s", "t", "u", "v", "w", "x", "y", "z">>

RECURSIVE LStrip(_)
LStrip(s) == IF s # <<>> /\ s[1] \in Whitespace THEN LStrip(Tail(s)) ELSE s

RECURSIVE RStrip(_)
RStrip(s) ==
    IF s # <<>> /\ s[Len(s)] \in Whitespace
    THEN RStrip(SubSeq(s, 1, Len(s) - 1))
    ELSE s

\* s.strip()
StrStrip(s) == RStrip(LStrip(s))

LowerChar(c) ==
    IF \E i \in 1..Len(UpperLetters) : UpperLetters[i] = c
    THEN LowerLetters[CHOOSE i \in 1..Len(UpperLetters) : UpperLetters[i] = c]
    ELSE c

\* s.lower()
StrLower(s) == [i \in 1..Len(s) |-> LowerChar(s[i])]

\* s.replace(c, "")
RECURSIVE RemoveChar(_, _)
RemoveChar(s, c) ==
    IF s = <<>> THEN <<>>
    ELSE IF s[1] = c THEN RemoveChar(Tail(s), c)
    ELSE <<s[1]>> \o RemoveChar(Tail(s), c)

\* position of the first c in s, 0 when there is none
IndexOf(s, c) ==
    IF \E i \in 1..Len(s) : s[i] = c
    THEN CHOOSE i \in 1..Len(s) : s[i] = c /\ \A j \in 1..(i - 1) : s[j] # c
    ELSE 0

AllDigits(s) == \A i \in 1..Len(s) : s[i] \in Digits

DigitVal(c) == (CHOOSE i \in 1..Len(DigitSeq) : DigitSeq[i] = c) - 1

RECURSIVE NatOf(_)
NatOf(s) ==
    IF s = <<>> THEN 0
    ELSE NatOf(SubSeq(s, 1, Len(s) - 1)) * 10 + DigitVal(s[Len(s)])

RECURSIVE Pow10(_)
Pow10(n) == IF n <= 0 THEN 1 ELSE 10 * Pow10(n - 1)

-----------------------------------------------------------------------------
(* float(str): optional sign, then nan / inf / infinity in any case, or a  *)
(* decimal literal with optional fraction and exponent. Digit-group        *)
(* underscores are not modelled. The value is kept in hundredths.          *)

HasSign(s) == s # <<>> /\ s[1] \in {"+", "-"}
SignOf(s) == IF HasSign(s) /\ s[1] = "-" THEN -1 ELSE 1
Unsigned(s) == IF HasSign(s) THEN Tail(s) ELSE s

\* the text before the first c (all of s when there is none), and after it
TextBefore(s, c) == IF IndexOf(s, c) = 0 THEN s ELSE SubSeq(s, 1, IndexOf(s, c) - 1)
TextAfter(s, c) == IF IndexOf(s, c) = 0 THEN <<>> ELSE SubSeq(s, IndexOf(s, c) + 1, Len(s))

\* digits * 10^shift
Scaled(digits, shift) ==
    IF shift >= 0 THEN digits * Pow10(shift) ELSE digits \div Pow10(0 - shift)

\* integer part ip, fraction part fp, exponent sign and digits
FloatOfFields(sign, ip, fp, hasExp, expSign, expD) ==
    IF /\ AllDigits(ip) /\ AllDigits(fp) /\ (ip # <<>> \/ fp # <<>>)
       /\ (~hasExp \/ (expD # <<>> /\ AllDigits(expD)))
    THEN PyFloat(sign * Scaled(NatOf(ip \o fp), expSign * NatOf(expD) - Len(fp) + 2))
    ELSE PyErr

FloatOfBody(sign, body) ==
    IF body = <<"n", "a", "n">> THEN PyNaN
    ELSE IF body = <<"i", "n", "f">>
            \/ body = <<"i", "n", "f", "i", "n", "i", "t", "y">>
    THEN PyInf(sign)
    ELSE FloatOfFields(sign, TextBefore(TextBefore(body, "e"), "."),
                       TextAfter(TextBefore(body, "e"), "."),
                       IndexOf(body, "e") # 0,
                       SignOf(TextAfter(body, "e")), Unsigned(TextAfter(body, "e")))

FloatOfStripped(s) == FloatOfBody(SignOf(s), StrLower(Unsigned(s)))

FloatOfStr(s0) == FloatOfStripped(StrStrip(s0))

\* float(x)
PyFloatOf(x) ==
    CASE x.t = "str" -> FloatOfStr(x.s)
      [] x.t \in {"float", "nan", "inf"} -> x
      [] OTHER -> PyErr

\* sanitizer.strip
strip(value) == IF value.t = "str" THEN PyStr(StrStrip(value.s)) ELSE value

\* sanitizer.to_float
FloatOrNone(f) == IF f.t = "err" THEN PyNone ELSE f

to_float(value) ==
    IF value.t = "none" THEN PyNone
    ELSE IF value.t = "str"
    THEN (IF StrStrip(RemoveChar(value.s, ",")) = <<>> THEN PyNone
          ELSE FloatOrNone(FloatOfStr(RemoveChar(value.s, ","))))
    ELSE FloatOrNone(PyFloatOf(value))

-----------------------------------------------------------------------------
(* datetime: civil date <-> day number (proleptic Gregorian), as the       *)
(* datetime type computes them                                             *)

DaysFromCivil(y0, m, d) ==
    LET y == IF m <= 2 THEN y0 - 1 ELSE y0
        era == y \div 400
        yoe == y - era * 400
        doy == (153 * (IF m > 2 THEN m - 3 ELSE m + 9) + 2) \div 5 + d - 1
        doe == yoe * 365 + yoe \div 4 - yoe \div 100 + doy
    IN  era * 146097 + doe - 719468

CivilOfMonth(era, yoe, doy, mp) ==
    [year |-> yoe + era * 400 + (IF mp < 10 THEN 0 ELSE 1),
     month |-> IF mp < 10 THEN mp + 3 ELSE mp - 9,
     day |-> doy - (153 * mp + 2) \div 5 + 1]

CivilOfDayOfYear(era, yoe, doy) == CivilOfMonth(era, yoe, doy, (5 * doy + 2) \div 153)

CivilOfYear(era, doe, yoe) ==
    CivilOfDayOfYear(era, yoe, doe - (365 * yoe + yoe \div 4 - yoe \div 100))

CivilOfEra(era, doe) ==
    CivilOfYear(era, doe,
                (doe - doe \div 1460 + doe \div 36524 - doe \div 146096) \div 365)

CivilFromDays(z0) == CivilOfEra((z0 + 719468) \div 146097, (z0 + 719468) % 146097)

IsLeap(y) == (y % 4 = 0 /\ y % 100 # 0) \/ y % 400 = 0

DaysInMonth(y, m) ==
    IF m = 2 THEN (IF IsLeap(y) THEN 29 ELSE 28)
    ELSE IF m \in {4, 6, 9, 11} THEN 30 ELSE 31

\* zero-padded decimal of n, w digits
RECURSIVE Pad(_, _)
Pad(n, w) == IF w = 0 THEN <<>> ELSE Pad(n \div 10, w - 1) \o <<DigitSeq[(n % 10) + 1]>>

\* datetime.isoformat() of a UTC-aware datetime without microseconds
IsoText(c, r) ==
    Pad(c.year, 4) \o <<"-">> \o Pad(c.month, 2) \o <<"-">> \o Pad(c.day, 2)
    \o <<"T">> \o Pad(r \div 3600, 2) \o <<":">> \o Pad((r % 3600) \div 60, 2)
    \o <<":">> \o Pad(r % 60, 2) \o <<"+", "0", "0", ":", "0", "0">>

isoformat(secs) == IsoText(CivilFromDays(secs \div 86400), secs % 86400)

(* dateutil.parser.parse, on the timestamp shapes of the modelled files:   *)
(*   YYYY-MM-DD [ (T|space) HH:MM[:SS] [ Z | (+|-)HH:MM ] ]                *)
(*   NN-NN-YYYY [ space HH:MM[:SS] [ Z | (+|-)HH:MM ] ]                    *)
(* Any other text is a parse error. The result is [ok, aware, secs]: secs  *)
(* is the POSIX time of an aware result, the wall-clock seconds of a naive *)
(* one.                                                                    *)
DateParseFields(s, hasTime, hasSec, tz) ==
    LET Num(a, b) == NatOf(SubSeq(s, a, b))
        tzOff == Len(tz) = 6 /\ tz[1] \in {"+", "-"} /\ tz[4] = ":"
                 /\ AllDigits(SubSeq(tz, 2, 3)) /\ AllDigits(SubSeq(tz, 5, 6))
        hh == IF hasTime THEN Num(12, 13) ELSE 0
        mi == IF hasTime THEN Num(15, 16) ELSE 0
        ss == IF hasSec THEN Num(18, 19) ELSE 0
        off == IF tz # <<>> /\ tzOff
               THEN (IF tz[1] = "-" THEN -1 ELSE 1)
                    * (NatOf(SubSeq(tz, 2, 3)) * 3600 + NatOf(SubSeq(tz, 5, 6)) * 60)
               ELSE 0
    IN  IF /\ tz = <<>> \/ (hasTime /\ (tz = <<"Z">> \/ tzOff))
           /\ Num(1, 4) >= 1 /\ Num(6, 7) \in 1..12 /\ Num(9, 10) >= 1
           /\ Num(9, 10) <= DaysInMonth(Num(1, 4), Num(6, 7))
           /\ hh <= 23 /\ mi <= 59 /\ ss <= 59
        THEN [ok |-> TRUE, aware |-> tz # <<>>,
              secs |-> DaysFromCivil(Num(1, 4), Num(6, 7), Num(9, 10)) * 86400
                       + hh * 3600 + mi * 60 + ss - off]
        ELSE [ok |-> FALSE, aware |-> FALSE, secs |-> 0]

DateParseTime(s, hasTime, hasSec) ==
    DateParseFields(s, hasTime, hasSec,
                    SubSeq(s, (IF hasSec THEN 19 ELSE IF hasTime THEN 16 ELSE 10) + 1, Len(s)))

DateParseStripped(s) ==
    LET Dig(a, b) == b <= Len(s) /\ AllDigits(SubSeq(s, a, b))
        hasTime == Len(s) >= 16 /\ s[11] \in {"T", " "} /\ Dig(12, 13) /\ s[14] = ":"
                   /\ Dig(15, 16)
    IN  IF Dig(1, 4) /\ Dig(6, 7) /\ Dig(9, 10) /\ s[5] = "-" /\ s[8] = "-"
        THEN DateParseTime(s, hasTime,
                           hasTime /\ Len(s) >= 19 /\ s[17] = ":" /\ Dig(18, 19))
        ELSE [ok |-> FALSE, aware |-> FALSE, secs |-> 0]

\* NN-NN-YYYY at the start of s
NumericDateShape(s) ==
    /\ Len(s) >= 10
    /\ AllDigits(SubSeq(s, 1, 2)) /\ s[3] = "-" /\ AllDigits(SubSeq(s, 4, 5))
    /\ s[6] = "-" /\ AllDigits(SubSeq(s, 7, 10))
    /\ (Len(s) > 10 => s[11] = " ")

\* parse is called without dayfirst: the first number of NN-NN-YYYY is the
\* month, unless it is above 12, and then it is the day
NumericDateOrder(s, first, second) ==
    SubSeq(s, 7, 10) \o <<"-">>
    \o (IF NatOf(first) > 12 THEN second ELSE first) \o <<"-">>
    \o (IF NatOf(first) > 12 THEN first ELSE second)
    \o SubSeq(s, 11, Len(s))

DateParseShaped(s) ==
    IF NumericDateShape(s)
    THEN DateParseStripped(NumericDateOrder(s, SubSeq(s, 1, 2), SubSeq(s, 4, 5)))
    ELSE DateParseStripped(s)

DateParse(s0) == DateParseShaped(StrStrip(s0))

PyDate(secs) == [t |-> "datetime", s |-> <<>>, v |-> secs]

\* date_utils.parse_ts
DateOrNone(dt) == IF ~dt.ok THEN PyNone ELSE PyDate(dt.secs)

parse_ts(value) ==
    IF ~Truthy(value) THEN PyNone
    ELSE IF value.t = "str" THEN DateOrNone(DateParse(value.s))
    ELSE PyNone

-----------------------------------------------------------------------------
(* column names and transaction type tokens *)

K_TransactionID == <<"T", "r", "a", "n", "s", "a", "c", "t", "i", "o", "n", "I", "D">>
K_TxID == <<"T", "x", "I", "D">>
K_transactionid == <<"t", "r", "a", "n", "s", "a", "c", "t", "i", "o", "n", "i", "d">>
K_transaction_id == <<"t", "r", "a", "n", "s", "a", "c", "t", "i", "o", "n", "_", "i", "d">>
K_TransactionType == <<"T", "r", "a", "n", "s", "a", "c", "t", "i", "o", "n", "T", "y", "p", "e">>
K_Type == <<"T", "y", "p", "e">>
K_transactiontype == <<"t", "r", "a", "n", "s", "a", "c", "t", "i", "o", "n", "t", "y", "p", "e">>
K_type == <<"t", "y", "p", "e">>
K_TransactionAmount == <<"T", "r", "a", "n", "s", "a", "c", "t", "i", "o", "n", "A", "m", "o", "u", "n", "t">>
K_Amount == <<"A", "m", "o", "u", "n", "t">>
K_transactionamount == <<"t", "r", "a", "n", "s", "a", "c", "t", "i", "o", "n", "a", "m", "o", "u", "n", "t">>
K_amount == <<"a", "m", "o", "u", "n", "t">>
K_TransactionTime == <<"T", "r", "a", "n", "s", "a", "c", "t", "i", "o", "n", "T", "i", "m", "e">>
K_Timestamp == <<"T", "i", "m", "e", "s", "t", "a", "m", "p">>
K_transactiontime == <<"t", "r", "a", "n", "s", "a", "c", "t", "i", "o", "n", "t", "i", "m", "e">>
K_timestamp == <<"t", "i", "m", "e", "s", "t", "a", "m", "p">>
K_id == <<"i", "d">>
K_CustomerID == <<"C", "u", "s", "t", "o", "m", "e", "r", "I", "D">>
K_AccountNumber == <<"A", "c", "c", "o", "u", "n", "t", "N", "u", "m", "b", "e", "r">>
K_Location == <<"L", "o", "c", "a", "t", "i", "o", "n">>
T_ministatement == <<"m", "i", "n", "i", "s", "t", "a", "t", "e", "m", "e", "n", "t">>
T_ministmt == <<"m", "i", "n", "i", "s", "t", "m", "t">>
T_balanceenquiry == <<"b", "a", "l", "a", "n", "c", "e", "e", "n", "q", "u", "i", "r", "y">>
T_balanceinquiry == <<"b", "a", "l", "a", "n", "c", "e", "i", "n", "q", "u", "i", "r", "y">>
T_balanceenq == <<"b", "a", "l", "a", "n", "c", "e", "e", "n", "q">>
T_balance == <<"b", "a", "l", "a", "n", "c", "e">>

\* a dict literal from a sequence of <<key, value>> pairs (later pairs win)
Dict(pairs) ==
    [k \in {pairs[i][1] : i \in 1..Len(pairs)} |->
        pairs[CHOOSE i \in 1..Len(pairs) :
                 /\ pairs[i][1] = k
                 /\ \A j \in (i + 1)..Len(pairs) : pairs[j][1] # k][2]]

-----------------------------------------------------------------------------
(* validator/transaction_validator.py *)

_normalize_txn_type(raw) ==
    IF ~Truthy(raw) THEN <<>>
    ELSE RemoveChar(RemoveChar(RemoveChar(StrLower(StrStrip(raw.s)), " "), "-"), "_")

zero_allowed ==
    {T_ministatement, T_ministmt, T_balanceenquiry, T_balanceinquiry,
     T_balanceenq, T_balance}

\* cleaned = {(k.strip() if k else k): strip(v) for k, v in row.items()}
\* a raw row is [keys |-> column names in header order, val |-> the dict]
StripRow(r) ==
    Dict([i \in 1..Len(r.keys) |-> <<StrStrip(r.keys[i]), strip(r.val[r.keys[i]])>>])

\* timestamp: parsed and rewritten as ISO text, or an error
TimestampChecked(cleaned, errors, ts) ==
    IF ~Truthy(ts)
    THEN [errors |-> errors \o <<"Invalid Timestamp">>, cleaned |-> cleaned]
    ELSE [errors |-> errors,
          cleaned |-> Put(cleaned, K_Timestamp, PyStr(isoformat(ts.v)))]

TimestampStep(cleaned, errors) ==
    TimestampChecked(cleaned, errors,
        parse_ts(PyOr(PyOr(PyOr(Get(cleaned, K_TransactionTime), Get(cleaned, K_Timestamp)),
                           Get(cleaned, K_transactiontime)),
                      Get(cleaned, K_timestamp))))

\* amount: stored as a float under "Amount"; positive unless the type allows zero
AmountChecked(cleaned, errors, transaction_type, amt_val) ==
    TimestampStep(Put(cleaned, K_Amount, amt_val),
                  errors \o (IF amt_val.t = "none" THEN <<"Invalid Amount">>
                             ELSE IF /\ FLeq(amt_val, PyFloat(0))
                                     /\ transaction_type \notin zero_allowed
                             THEN <<"Invalid or non-positive Amount">>
                             ELSE <<>>))

AmountStep(cleaned, errors) ==
    AmountChecked(cleaned, errors,
        _normalize_txn_type(
            PyOr(PyOr(PyOr(Get(cleaned, K_TransactionType), Get(cleaned, K_Type)),
                      Get(cleaned, K_transactiontype)),
                 Get(cleaned, K_type))),
        to_float(PyOr(PyOr(PyOr(Get(cleaned, K_TransactionAmount), Get(cleaned, K_Amount)),
                           Get(cleaned, K_transactionamount)),
                      Get(cleaned, K_amount))))

\* transaction id: stored stripped under "TransactionID", or an error
TxnIdChecked(cleaned, txn_id) ==
    AmountStep(IF ~Truthy(txn_id) THEN cleaned
               ELSE Put(cleaned, K_TransactionID, strip(txn_id)),
               IF ~Truthy(txn_id) THEN <<"Missing TransactionID">> ELSE <<>>)

TxnIdStep(cleaned) ==
    TxnIdChecked(cleaned,
        PyOr(PyOr(PyOr(Get(cleaned, K_TransactionID), Get(cleaned, K_TxID)),
                  Get(cleaned, K_transactionid)),
             Get(cleaned, K_transaction_id)))

validate_transaction_row(r, source) == TxnIdStep(StripRow(r))

-----------------------------------------------------------------------------
(* sample cell texts of the modelled CSV files *)

S_T1 == <<"T", "1">>
S_T1_padded == <<" ", "T", "1", " ">>
S_T2 == <<"T", "2">>
S_blank == <<" ", " ">>
S_Withdrawal == <<"W", "i", "t", "h", "d", "r", "a", "w", "a", "l">>
S_Mini_Statement == <<"M", "i", "n", "i", " ", "S", "t", "a", "t", "e", "m", "e", "n", "t">>
S_BALANCE_ENQUIRY == <<"B", "A", "L", "A", "N", "C", "E", "_", "E", "N", "Q", "U", "I", "R", "Y">>
S_balance_enq == <<"b", "a", "l", "a", "n", "c", "e", "-", "e", "n", "q">>
S_100 == <<"1", "0", "0">>
S_0 == <<"0">>
S_minus5 == <<"-", "5">>
S_75_000 == <<"7", "5", ",", "0", "0", "0">>
S_1_234_56 == <<" ", "1", ",", "2", "3", "4", ".", "5", "6", " ">>
S_abc == <<"a", "b", "c">>
S_nan == <<"n", "a", "n">>
S_NaN == <<"N", "a", "N">>
S_inf == <<"i", "n", "f">>
S_ts_iso == <<"2", "0", "2", "4", "-", "0", "1", "-", "0", "1", "T", "1", "0", ":", "0", "0", ":", "0", "0">>
S_ts_space == <<"2", "0", "2", "4", "-", "0", "1", "-", "0", "1", " ", "1", "0", ":", "0", "0">>
S_ts_offset == <<"2", "0", "2", "4", "-", "0", "1", "-", "0", "1", "T", "1", "5", ":", "3", "0", ":", "0", "0", "+", "0", "5", ":", "3", "0">>
S_ts_bad_day == <<"2", "0", "2", "4", "-", "0", "2", "-", "3", "0", "T", "1", "0", ":", "0", "0", ":", "0", "0">>

\* a raw row from a sequence of <<column, value>> cells, in header order
Row(cells) == [keys |-> [i \in 1..Len(cells) |-> cells[i][1]], val |-> Dict(cells)]

-----------------------------------------------------------------------------
(* Specification SpecValidate: validate_transaction_row on one raw row     *)

\* the cells a row may hold for each field group
IdCells ==
    { <<>>,
      << <<K_TransactionID, PyStr(S_T1)>> >>,
      << <<K_TransactionID, PyStr(S_T1_padded)>> >>,
      << <<K_TransactionID, PyStr(S_blank)>> >>,
      << <<K_TransactionID, PyStr(<<>>)>> >>,
      << <<K_TransactionID, PyNone>> >>,
      << <<K_TransactionID, PyStr(<<>>)>>, <<K_TxID, PyStr(S_T2)>> >>,
      << <<K_TxID, PyStr(S_T1)>> >>,
      << <<K_transactionid, PyStr(S_T1)>> >>,
      << <<K_transaction_id, PyStr(S_T1)>> >> }

TypeCells ==
    { <<>>,
      << <<K_TransactionType, PyStr(S_Withdrawal)>> >>,
      << <<K_TransactionType, PyStr(S_Mini_Statement)>> >>,
      << <<K_Type, PyStr(S_BALANCE_ENQUIRY)>> >>,
      << <<K_TransactionType, PyStr(<<>>)>>, <<K_type, PyStr(S_balance_enq)>> >> }

AmountTexts ==
    { PyStr(S_100), PyStr(S_0), PyStr(S_minus5), PyStr(S_75_000), PyStr(S_1_234_56),
      PyStr(S_abc), PyStr(S_nan), PyStr(S_NaN), PyStr(S_inf), PyStr(<<>>), PyNone }

AmountCells ==
    { <<>> }
    \cup { << <<K_TransactionAmount, a>> >> : a \in AmountTexts }
    \cup { << <<K_Amount, a>> >> : a \in AmountTexts }
    \cup { << <<K_TransactionAmount, PyStr(<<>>)>>, <<K_Amount, PyStr(S_100)>> >>,
           << <<K_amount, PyStr(S_100)>> >> }

TimeTexts ==
    { PyStr(S_ts_iso), PyStr(S_ts_space), PyStr(S_ts_offset), PyStr(S_ts_bad_day),
      PyStr(S_abc), PyStr(<<>>), PyNone }

TimeCells ==
    { <<>> }
    \cup { << <<K_TransactionTime, x>> >> : x \in TimeTexts }
    \cup { << <<K_Timestamp, x>> >> : x \in TimeTexts }
    \cup { << <<K_timestamp, PyStr(S_ts_iso)>> >> }

RawRows ==
    { Row(i \o ty \o a \o ts) :
        i \in IdCells, ty \in TypeCells, a \in AmountCells, ts \in TimeCells }

NoRow == Row(<<>>)
NoDict == Dict(<<>>)

\* the variables a specification does not use keep these values
IdleValidate == row = NoRow /\ verrors = <<>> /\ vcleaned = NoDict
IdleFraud == parsed_rows = <<>> /\ alerts = <<>> /\ by_customer = <<>>
IdleMain ==
    /\ file_name = <<>>
    /\ file_text = <<>>
    /\ source_type = "UNKNOWN"
    /\ metadata = <<>>
    /\ quarantine = <<>>
    /\ container = <<>>
    /\ valid_rows = <<>>
    /\ alert_container = <<>>
    /\ result = <<>>
    /\ message = <<>>
    /\ client = <<>>

varsValidate == <<row, verrors, vcleaned>>
varsFraud == <<parsed_rows, alerts, by_customer>>
varsMain == <<file_name, file_text, source_type, metadata, quarantine, container,
              valid_rows, alert_container, result, message, client>>

InitValidate ==
    /\ pc = "start"
    /\ row \in RawRows
    /\ verrors = <<>>
    /\ vcleaned = NoDict
    /\ IdleFraud
    /\ IdleMain

\* errors, cleaned = validate_transaction_row(row, source)
Validate(source) ==
    /\ pc = "start"
    /\ \E r \in {validate_transaction_row(row, source)} :
           /\ verrors' = r.errors
           /\ vcleaned' = r.cleaned
    /\ pc' = "validated"
    /\ UNCHANGED <<row, varsFraud, varsMain>>

NextValidate == \E source \in {"ATM", "UPI"} : Validate(source)

SpecValidate == InitValidate /\ [][NextValidate]_vars

-----------------------------------------------------------------------------
(* C1 *)

\* the first non-empty value among the columns named by aliases
RECURSIVE Resolve(_, _)
Resolve(d, aliases) ==
    IF aliases = <<>> THEN PyNone
    ELSE IF Truthy(Get(d, aliases[1])) THEN Get(d, aliases[1])
    ELSE Resolve(d, Tail(aliases))

C1_IdResolves(r) ==
    Truthy(Resolve(StripRow(r),
                   <<K_TransactionID, K_TxID, K_transactionid, K_transaction_id>>))

C1_AmountOk(r) ==
    LET d == StripRow(r)
        a == to_float(Resolve(d, <<K_TransactionAmount, K_Amount,
                                   K_transactionamount, K_amount>>))
        ty == _normalize_txn_type(Resolve(d, <<K_TransactionType, K_Type,
                                               K_transactiontype, K_type>>))
    IN  /\ a.t # "none"
        /\ \/ FGt(a, PyFloat(0))
           \/ FLeq(a, PyFloat(0)) /\ ty \in zero_allowed

C1_TimeParses(r) ==
    parse_ts(Resolve(StripRow(r), <<K_TransactionTime, K_Timestamp,
                                    K_transactiontime, K_timestamp>>)).t = "datetime"

\* C1: validate_transaction_row returns an empty error list if and only if
\* a non-empty TransactionID resolves from its aliases, the resolved amount
\* converts to a number that is > 0 (or <= 0 with a zero-amount-allowed
\* normalized type), and the resolved timestamp parses.
C1_ValidIffWellFormed ==
    pc = "validated" =>
        (verrors = <<>> <=> (C1_IdResolves(row) /\ C1_AmountOk(row) /\ C1_TimeParses(row)))

\* the same statement on the rows whose amount does not convert to NaN
C1_ValidIffWellFormedNoNaN ==
    (pc = "validated" /\ Get(vcleaned, K_Amount).t # "nan") =>
        (verrors = <<>> <=> (C1_IdResolves(row) /\ C1_AmountOk(row) /\ C1_TimeParses(row)))

\* a non-numeric amount text is an error even for a zero-amount-allowed type
C1_NonNumericIsError ==
    pc = "validated" =>
        \A i \in 1..Len(row.keys) :
            (row.keys[i] \in {K_TransactionAmount, K_Amount} /\ row.val[row.keys[i]] = PyStr(S_abc))
                => verrors # <<>>

-----------------------------------------------------------------------------
(* alerts/transaction_alerts.py *)

HIGH_VALUE_THRESHOLD == 50000
VELOCITY_WINDOW_MINUTES == 2
VELOCITY_TXN_COUNT == 10

P_HIGHVALUE == <<"A", "L", "E", "R", "T", "_", "H", "I", "G", "H", "V", "A", "L", "U", "E", "_">>
P_VELOCITY == <<"A", "L", "E", "R", "T", "_", "V", "E", "L", "O", "C", "I", "T", "Y", "_">>
P_GEO == <<"A", "L", "E", "R", "T", "_", "G", "E", "O", "_">>
P_BALANCE_DRAIN == <<"A", "L", "E", "R", "T", "_", "B", "A", "L", "A", "N", "C", "E", "_", "D", "R", "A", "I", "N", "_">>
S_UNKNOWN == <<"U", "N", "K", "N", "O", "W", "N">>
S_None == <<"N", "o", "n", "e">>

\* the text an f-string puts for a value (floats are not rendered)
FStr(x) ==
    CASE x.t = "str" -> x.s
      [] x.t = "none" -> S_None
      [] OTHER -> <<"#">>

RECURSIVE Flatten(_)
Flatten(ss) == IF ss = <<>> THEN <<>> ELSE ss[1] \o Flatten(Tail(ss))

\* timedelta(minutes = m), in seconds
Minutes(m) == m * 60

\* one alert dict; keys is the set of payload keys it has
Alert(id, type, reason, keys, txn, txns, locs) ==
    [alert_id |-> id, type |-> type, reason |-> reason, keys |-> keys,
     transaction |-> txn, transactions |-> txns, locations |-> locs]

\* float(r.get("Amount") or 0)
AmountOf(r) == PyFloatOf(PyOr(Get(r, K_Amount), PyFloat(0)))

HighValueAlert(r, amt) ==
    Alert(P_HIGHVALUE \o FStr(Get(r, K_TransactionID)), "HIGH_VALUE",
          <<"Transaction amount {} exceeds threshold {}", amt>>,
          {"transaction"}, r, <<>>, <<>>)

\* rule 1 with the comparison amt > HIGH_VALUE_THRESHOLD in place of >=
HighValueRow_Above(r, amt) ==
    IF amt.t # "err" /\ FGt(amt, Rupee(HIGH_VALUE_THRESHOLD))
    THEN <<HighValueAlert(r, amt)>>
    ELSE <<>>

\* rule 1 on one row: an alert when amt >= HIGH_VALUE_THRESHOLD
HighValueRow(r, amt) ==
    IF amt.t # "err" /\ FGeq(amt, Rupee(HIGH_VALUE_THRESHOLD))
    THEN <<HighValueAlert(r, amt)>>
    ELSE <<>>

\* rule 1: one HIGH_VALUE alert per row at or above the threshold
HighValueAlerts(rows) ==
    Flatten([i \in 1..Len(rows) |-> HighValueRow(rows[i], AmountOf(rows[i]))])

\* a variant that prefers the AccountNumber
GroupKey_AccountFirst(r) ==
    PyOr(PyOr(Get(r, K_AccountNumber), Get(r, K_CustomerID)), PyStr(S_UNKNOWN))

\* cid = r.get("CustomerID") or r.get("AccountNumber") or "UNKNOWN"
GroupKey(r) == PyOr(PyOr(Get(r, K_CustomerID), Get(r, K_AccountNumber)), PyStr(S_UNKNOWN))

\* date_parser.parse(r.get("Timestamp")); a non-str argument raises too
RowTime(r) ==
    IF Get(r, K_Timestamp).t = "str"
    THEN DateParse(Get(r, K_Timestamp).s)
    ELSE [ok |-> FALSE, aware |-> FALSE, secs |-> 0]

\* by_customer[cid].append((ts, r)), skipped when the timestamp does not parse
EntryOf(r, p) ==
    IF p.ok
    THEN << [cid |-> GroupKey(r), ts |-> p.secs, aware |-> p.aware, r |-> r] >>
    ELSE <<>>

\* the (cid, ts, r) entries appended to by_customer, in input order
Entries(rows) == Flatten([i \in 1..Len(rows) |-> EntryOf(rows[i], RowTime(rows[i]))])

\* by_customer.keys(), in insertion order
GroupKeys(es) ==
    Flatten([i \in 1..Len(es) |->
        IF \A j \in 1..(i - 1) : es[j].cid # es[i].cid THEN <<es[i].cid>> ELSE <<>>])

\* by_customer[cid], in insertion order
GroupItems(es, cid) == SelectSeq(es, LAMBDA e : e.cid = cid)

\* list.sort(key = ts): stable, ascending
SortByTs(items) ==
    LET n == Len(items)
        Before(j, k) == items[j].ts < items[k].ts \/ (items[j].ts = items[k].ts /\ j < k)
        Rank(k) == 1 + Cardinality({j \in 1..n : Before(j, k)})
    IN  [p \in 1..n |-> items[CHOOSE k \in 1..n : Rank(k) = p]]

\* ordering a list that holds both naive and aware datetimes raises TypeError
MixedAwareness(items) ==
    \E i, j \in 1..Len(items) : items[i].aware /\ ~items[j].aware

\* the inner while loop of rule 2 with the window bound exclusive (< window)
RECURSIVE WindowEnd_Exclusive(_, _, _)
WindowEnd_Exclusive(items, i, j) ==
    IF j <= Len(items) /\ (items[j].ts - items[i].ts) < Minutes(VELOCITY_WINDOW_MINUTES)
    THEN WindowEnd_Exclusive(items, i, j + 1)
    ELSE j

\* the inner while loop of rule 2: the first j past the window opened at i
RECURSIVE WindowEnd(_, _, _)
WindowEnd(items, i, j) ==
    IF j <= Len(items) /\ (items[j].ts - items[i].ts) <= Minutes(VELOCITY_WINDOW_MINUTES)
    THEN WindowEnd(items, i, j + 1)
    ELSE j

\* rule 2 at position i of a sorted group whose window ends before j
VelocityWindow(cid, items, i, j) ==
    IF j - i >= VELOCITY_TXN_COUNT
    THEN << Alert(P_VELOCITY \o FStr(cid) \o <<"_">> \o isoformat(items[i].ts),
                  "VELOCITY_ATTACK",
                  <<"{} transactions within {} minutes", j - i>>,
                  {"transactions"}, NoDict,
                  [k \in 1..(j - i) |-> items[i + k - 1].r], <<>>) >>
    ELSE <<>>

\* rule 2 on one group (items sorted)
VelocityAlerts(cid, items) ==
    Flatten([i \in 1..Len(items) |->
        VelocityWindow(cid, items, i, WindowEnd(items, i, i + 1))])

\* rule 3: the distinct locations of the located entries, in first-seen order
GeoLocations(located) ==
    Flatten([i \in 1..Len(located) |->
        IF \A j \in 1..(i - 1) :
               Get(located[j].r, K_Location) # Get(located[i].r, K_Location)
        THEN <<Get(located[i].r, K_Location)>>
        ELSE <<>>])

\* the timestamps of one location, in group order
GeoTimesAt(located, loc) ==
    [k \in 1..Len(SelectSeq(located, LAMBDA e : Get(e.r, K_Location) = loc)) |->
        [loc |-> loc,
         ts |-> SelectSeq(located, LAMBDA e : Get(e.r, K_Location) = loc)[k].ts]]

GeoFlat(located, locs) ==
    Flatten([l \in 1..Len(locs) |-> GeoTimesAt(located, locs[l])])

GeoLocated(located) == SortByTs(GeoFlat(located, GeoLocations(located)))

\* rule 3: the (loc, t) list built from loc_map, sorted by t
GeoTimestamps(items) ==
    GeoLocated(SelectSeq(items, LAMBDA e : Truthy(Get(e.r, K_Location))))

\* next((r for ts, r in items if ts == t), None)
FirstAt(items, t) ==
    IF \E k \in 1..Len(items) : items[k].ts = t
    THEN items[CHOOSE k \in 1..Len(items) :
                  items[k].ts = t /\ \A m \in 1..(k - 1) : items[m].ts # t].r
    ELSE NoDict

\* the alert of rule 3 for the timestamps a, b of the sorted list
GeoAlert(cid, a, b, txn1, txn2) ==
    Alert(P_GEO \o FStr(cid) \o <<"_">> \o isoformat(a.ts),
          "GEO_LOCATION_SWITCH",
          <<"Transaction from {} -> {} within 10 minutes", a.loc, b.loc>>,
          {"transactions", "locations"}, NoDict,
          IF txn1 # NoDict /\ txn2 # NoDict THEN <<txn1, txn2>> ELSE <<>>,
          << <<a.loc, isoformat(a.ts)>>, <<b.loc, isoformat(b.ts)>> >>)

\* rule 3 comparing only neighbours of the time-sorted list (j = i + 1)
GeoPairs_Adjacent(cid, items, tl) ==
    Flatten([i \in 1..(Len(tl) - 1) |->
        IF /\ tl[i].loc # tl[i + 1].loc
           /\ (tl[i + 1].ts - tl[i].ts) <= Minutes(10)
        THEN << GeoAlert(cid, tl[i], tl[i + 1],
                         FirstAt(items, tl[i].ts), FirstAt(items, tl[i + 1].ts)) >>
        ELSE <<>>])

\* rule 3 on the time-sorted list tl: every pair i < j
GeoPairs(cid, items, tl) ==
    Flatten([i \in 1..Len(tl) |->
      Flatten([j \in 1..Len(tl) |->
        IF /\ j > i
           /\ tl[i].loc # tl[j].loc
           /\ (tl[j].ts - tl[i].ts) <= Minutes(10)
        THEN << GeoAlert(cid, tl[i], tl[j],
                         FirstAt(items, tl[i].ts), FirstAt(items, tl[j].ts)) >>
        ELSE <<>>])])

\* rule 3 on one group (items sorted)
GeoAlerts(cid, items) == GeoPairs(cid, items, GeoTimestamps(items))

\* the amount rule 4 adds for a row
DrainAmount(a) == IF a.t = "err" THEN PyFloat(0) ELSE a

DrainAlert(cid, items, k, total_amt) ==
    Alert(P_BALANCE_DRAIN \o FStr(cid) \o <<"_">> \o isoformat(items[k].ts),
          "BALANCE_DRAIN",
          <<"Total withdrawals {} in 10 minutes", total_amt>>,
          {"transactions"}, NoDict,
          [m \in 1..Len(items) |-> items[m].r], <<>>)

RECURSIVE DrainScan(_, _, _, _)

\* rule 4 without the ten-minute condition on the running total
DrainCheck_AnyTime(cid, items, k, total_amt) ==
    IF FGeq(total_amt, Rupee(100000))
    THEN <<DrainAlert(cid, items, k, total_amt)>>
    ELSE DrainScan(cid, items, k + 1, total_amt)

\* rule 4 at position k with the running total total_amt: alert and stop, or go on
DrainCheck(cid, items, k, total_amt) ==
    IF /\ (items[k].ts - items[1].ts) <= Minutes(10)
       /\ FGeq(total_amt, Rupee(100000))
    THEN <<DrainAlert(cid, items, k, total_amt)>>
    ELSE DrainScan(cid, items, k + 1, total_amt)

\* rule 4: the scan of one sorted group from position k with running total
DrainScan(cid, items, k, total) ==
    IF k > Len(items) THEN <<>>
    ELSE DrainCheck(cid, items, k, FAdd(total, DrainAmount(AmountOf(items[k].r))))

DrainAlerts(cid, items) == DrainScan(cid, items, 1, PyFloat(0))

\* rules 2 to 4 on the group of cid, sorted by timestamp
GroupAlerts(cid, items) ==
    [velocity |-> VelocityAlerts(cid, items),
     geo |-> GeoAlerts(cid, items),
     drain |-> DrainAlerts(cid, items)]

\* the alerts of rules 2 to 4, rule by rule, groups in insertion order
PerGroup(es, cids) ==
    [c \in 1..Len(cids) |-> GroupAlerts(cids[c], SortByTs(GroupItems(es, cids[c])))]

RuleOutput(rows, groups) ==
    HighValueAlerts(rows)
    \o Flatten([c \in 1..Len(groups) |-> groups[c].velocity])
    \o Flatten([c \in 1..Len(groups) |-> groups[c].geo])
    \o Flatten([c \in 1..Len(groups) |-> groups[c].drain])

\* by_customer once items.sort has run on every group: the groups in
\* insertion order, each with its items sorted
SortedGroups(es, cids) ==
    [c \in 1..Len(cids) |-> [cid |-> cids[c], items |-> SortByTs(GroupItems(es, cids[c]))]]

ByCustomer(rows) == SortedGroups(Entries(rows), GroupKeys(Entries(rows)))

FraudOnGroups(rows, es, cids) ==
    IF \E c \in 1..Len(cids) : MixedAwareness(GroupItems(es, cids[c]))
    THEN [raised |-> TRUE, alerts |-> <<>>]
    ELSE [raised |-> FALSE, alerts |-> RuleOutput(rows, PerGroup(es, cids))]

FraudOnEntries(rows, es) == FraudOnGroups(rows, es, GroupKeys(es))

\* fraud_detection(parsed_rows): [raised, alerts]
fraud_detection(rows) == FraudOnEntries(rows, Entries(rows))

-----------------------------------------------------------------------------
(* batches handed to fraud_detection: rows as validate_transaction_row     *)
(* cleans them and as the processor stamps them with "id"                  *)

K_Status == <<"S", "t", "a", "t", "u", "s">>
K_DeviceID == <<"D", "e", "v", "i", "c", "e", "I", "D">>
S_C1 == <<"C", "1">>
S_C2 == <<"C", "2">>
S_A1 == <<"A", "1">>
S_A2 == <<"A", "2">>
S_Mumbai == <<"M", "u", "m", "b", "a", "i">>
S_Delhi == <<"D", "e", "l", "h", "i">>
S_Pune == <<"P", "u", "n", "e">>

\* decimal text of a natural number
RECURSIVE NatText(_)
NatText(n) ==
    IF n < 10 THEN <<DigitSeq[n + 1]>>
    ELSE NatText(n \div 10) \o <<DigitSeq[(n % 10) + 1]>>

\* 2024-01-01T10:00:00Z, the time of the first transaction of a modelled file
T0 == DaysFromCivil(2024, 1, 1) * 86400 + 10 * 3600

\* the cell text of the time T0 + off seconds
TimeText(off) == PyStr(isoformat(T0 + off))

\* the TransactionID of the n-th row of a file
TxnId(n) == PyStr(<<"T">> \o NatText(n))

\* a valid row after validation and r["id"] = str(r.get("TransactionID"))
StampId(r) == Put(r, K_id, Get(r, K_TransactionID))

CleanTxn(cells) == StampId(validate_transaction_row(Row(cells), "ATM").cleaned)

-----------------------------------------------------------------------------
(* Specifications of fraud_detection: a batch of valid rows is built row   *)
(* by row, then fraud_detection runs on it                                 *)

\* one more valid row at the end of the batch
AddTxn(cells) ==
    /\ pc = "batch"
    /\ parsed_rows' = Append(parsed_rows, CleanTxn(cells))
    /\ UNCHANGED <<pc, alerts, by_customer, varsValidate, varsMain>>

\* alerts = fraud_detection(parsed_rows)
Detect ==
    /\ pc = "batch"
    /\ \E f \in {fraud_detection(parsed_rows)} :
           /\ alerts' = f.alerts
           /\ by_customer' = IF f.raised THEN <<>> ELSE ByCustomer(parsed_rows)
           /\ pc' = IF f.raised THEN "raised" ELSE "detected"
    /\ UNCHANGED <<parsed_rows, varsValidate, varsMain>>

InitFraud ==
    /\ pc = "batch"
    /\ parsed_rows = <<>>
    /\ alerts = <<>>
    /\ by_customer = <<>>
    /\ IdleValidate
    /\ IdleMain

\* the alerts of one type, in emission order
OfType(as, type) == SelectSeq(as, LAMBDA a : a.type = type)

-----------------------------------------------------------------------------
(* Specification SpecHighValue: amounts around HIGH_VALUE_THRESHOLD        *)

S_49999_99 == <<"4", "9", "9", "9", "9", ".", "9", "9">>
S_50000 == <<"5", "0", "0", "0", "0">>
S_75000 == <<"7", "5", "0", "0", "0">>

MaxHighValueRows == 3

HighValueCells ==
    { << <<K_TransactionID, id>>, <<K_CustomerID, PyStr(S_C1)>>, <<K_Amount, PyStr(a)>>,
         <<K_Timestamp, TimeText(0)>> >> :
        id \in {TxnId(1), TxnId(2)},
        a \in {S_100, S_49999_99, S_50000, S_75000, S_nan} }

NextHighValue ==
    \/ \E cells \in HighValueCells :
           Len(parsed_rows) < MaxHighValueRows /\ AddTxn(cells)
    \/ Detect

SpecHighValue == InitFraud /\ [][NextHighValue]_vars

\* the rows of the batch whose amount is at least 50000
C5_Qualifying == SelectSeq(parsed_rows, LAMBDA r : FGeq(Get(r, K_Amount), Rupee(50000)))

\* C5: fraud_detection emits exactly one HIGH_VALUE alert, with id
\* ALERT_HIGHVALUE_<TransactionID>, for each row whose amount is >= 50000,
\* and none for a row whose amount is < 50000.
C5_HighValuePerRow ==
    pc = "detected" =>
        LET hv == OfType(alerts, "HIGH_VALUE")
        IN  /\ Len(hv) = Len(C5_Qualifying)
            /\ \A k \in 1..Len(hv) :
                  /\ hv[k].transaction = C5_Qualifying[k]
                  /\ hv[k].alert_id = P_HIGHVALUE \o Get(C5_Qualifying[k], K_TransactionID).s
            /\ \A k \in 1..Len(hv) : ~FLt(Get(hv[k].transaction, K_Amount), Rupee(50000))

\* a batch with a row of exactly 50000 (alerted) and a row just below (not alerted)
C5_Witness ==
    /\ pc = "detected"
    /\ \E i, j \in 1..Len(parsed_rows) :
          /\ Get(parsed_rows[i], K_Amount) = Rupee(50000)
          /\ Get(parsed_rows[j], K_Amount) = PyFloat(4999999)
          /\ \E k \in 1..Len(alerts) :
                alerts[k].type = "HIGH_VALUE" /\ alerts[k].transaction = parsed_rows[i]
          /\ ~\E k \in 1..Len(alerts) :
                alerts[k].type = "HIGH_VALUE" /\ alerts[k].transaction = parsed_rows[j]

-----------------------------------------------------------------------------
(* Specification SpecVelocity: a burst of one customer's transactions,     *)
(* followed by a few more rows of either customer                          *)

MaxBurst == 9
MaxExtra == 2

\* the TransactionID of the n-th row added after the burst
ExtraId(n) == PyStr(<<"X">> \o NatText(n))

\* n0 transactions of customer C1 at T0, then n2 more two minutes later
Burst(n0, n2) ==
    [k \in 1..(n0 + n2) |->
        CleanTxn(<< <<K_TransactionID, TxnId(k)>>, <<K_CustomerID, PyStr(S_C1)>>,
                    <<K_Amount, PyStr(S_100)>>,
                    <<K_Timestamp, TimeText(IF k <= n0 THEN 0 ELSE 120)>> >>)]

Bursts == { Burst(n0, n2) : n0 \in 0..MaxBurst, n2 \in 0..MaxBurst }

ExtraCount == Cardinality({k \in 1..Len(parsed_rows) :
                              Get(parsed_rows[k], K_TransactionID).s[1] = "X"})

VelocityCells ==
    { << <<K_TransactionID, ExtraId(ExtraCount + 1)>>, <<K_CustomerID, PyStr(c)>>,
         <<K_Amount, PyStr(S_100)>>, <<K_Timestamp, TimeText(off)>> >> :
        c \in {S_C1, S_C2}, off \in {0, 120, 121} }

InitVelocity ==
    /\ pc = "batch"
    /\ parsed_rows \in { b \in Bursts : Len(b) <= MaxBurst }
    /\ alerts = <<>>
    /\ by_customer = <<>>
    /\ IdleValidate
    /\ IdleMain

NextVelocity ==
    \/ \E cells \in VelocityCells : ExtraCount < MaxExtra /\ AddTxn(cells)
    \/ Detect

SpecVelocity == InitVelocity /\ [][NextVelocity]_vars

\* the time of a valid row, in seconds
TimeOf(r) == RowTime(r).secs

\* rows in ascending time order, rows of equal time in input order
RECURSIVE ByTime(_)
ByTime(rows) ==
    IF rows = <<>> THEN <<>>
    ELSE LET r == rows[Len(rows)]
             s == ByTime(SubSeq(rows, 1, Len(rows) - 1))
         IN  SelectSeq(s, LAMBDA x : TimeOf(x) <= TimeOf(r)) \o <<r>>
                 \o SelectSeq(s, LAMBDA x : TimeOf(x) > TimeOf(r))

\* the customers of the batch, and the time-ordered transactions of one
Customers == { GroupKey(parsed_rows[k]) : k \in 1..Len(parsed_rows) }
GroupByTime(g) == ByTime(SelectSeq(parsed_rows, LAMBDA r : GroupKey(r) = g))

\* the positions >= i of s whose time is within two minutes (inclusive) of s[i]
C6_Window(s, i) == { j \in i..Len(s) : TimeOf(s[j]) - TimeOf(s[i]) <= 2 * 60 }

\* the window starts of s that hold at least ten transactions, ascending
C6_Starts(s) ==
    SelectSeq([i \in 1..Len(s) |-> i], LAMBDA i : Cardinality(C6_Window(s, i)) >= 10)

\* the VELOCITY_ATTACK alerts about customer g, in emission order
C6_AlertsOf(g) ==
    SelectSeq(alerts, LAMBDA a : /\ a.type = "VELOCITY_ATTACK"
                                 /\ a.transactions # <<>>
                                 /\ GroupKey(a.transactions[1]) = g)

\* C6: for every customer and every index i of its time-sorted transactions,
\* there is a VELOCITY_ATTACK alert for window start i iff at least 10
\* transactions at positions >= i lie within 2 minutes (inclusive) of the i-th;
\* the alert lists exactly those transactions, and overlapping windows each
\* get their own alert.
C6_VelocityPerWindow ==
    pc = "detected" =>
        /\ \A g \in Customers :
              LET s == GroupByTime(g)
                  starts == C6_Starts(s)
                  va == C6_AlertsOf(g)
              IN  /\ Len(va) = Len(starts)
                  /\ \A k \in 1..Len(va) :
                        /\ Len(va[k].transactions) = Cardinality(C6_Window(s, starts[k]))
                        /\ Len(va[k].transactions) >= 10
                        /\ { va[k].transactions[m] : m \in 1..Len(va[k].transactions) }
                               = { s[j] : j \in C6_Window(s, starts[k]) }
        /\ \A k \in 1..Len(alerts) :
              alerts[k].type = "VELOCITY_ATTACK" => alerts[k].transactions # <<>>

\* two overlapping windows alerted, the later one reaching a row exactly two
\* minutes after its start and leaving out a row of the batch
C6_Witness ==
    /\ pc = "detected"
    /\ \E a, b \in 1..Len(alerts) :
          /\ a < b
          /\ alerts[a].type = "VELOCITY_ATTACK"
          /\ alerts[b].type = "VELOCITY_ATTACK"
          /\ alerts[a].transactions # alerts[b].transactions
          /\ LET t == alerts[b].transactions
             IN  TimeOf(t[Len(t)]) - TimeOf(t[1]) = 120
          /\ Len(alerts[b].transactions) < Len(parsed_rows)

-----------------------------------------------------------------------------
(* Specification SpecGeo: rows with and without a Location, up to just     *)
(* past ten minutes apart                                                  *)

MaxGeoRows == 3

GeoCells ==
    { << <<K_TransactionID, TxnId(Len(parsed_rows) + 1)>>, <<K_CustomerID, PyStr(S_C1)>>,
         <<K_Amount, PyStr(S_100)>>, <<K_Location, PyStr(l)>>,
         <<K_Timestamp, TimeText(off)>> >> :
        l \in {S_Mumbai, S_Delhi, <<>>}, off \in {0, 600, 601} }
    \cup
    { << <<K_TransactionID, TxnId(Len(parsed_rows) + 1)>>, <<K_CustomerID, PyStr(S_C2)>>,
         <<K_Amount, PyStr(S_100)>>, <<K_Location, PyStr(l)>>,
         <<K_Timestamp, TimeText(0)>> >> :
        l \in {S_Mumbai, S_Delhi} }

NextGeo ==
    \/ \E cells \in GeoCells : Len(parsed_rows) < MaxGeoRows /\ AddTxn(cells)
    \/ Detect

SpecGeo == InitFraud /\ [][NextGeo]_vars

\* the location text of a row, <<>> when it has none
LocationOf(r) == IF Truthy(Get(r, K_Location)) THEN Get(r, K_Location).s ELSE <<>>

\* the unordered pairs (as positions p < q of the batch) of customer g's
\* transactions with different non-empty locations at most ten minutes apart
C7_Pairs(g) ==
    { pq \in (1..Len(parsed_rows)) \X (1..Len(parsed_rows)) :
        LET a == parsed_rows[pq[1]]
            b == parsed_rows[pq[2]]
        IN  /\ pq[1] < pq[2]
            /\ GroupKey(a) = g /\ GroupKey(b) = g
            /\ LocationOf(a) # <<>> /\ LocationOf(b) # <<>>
            /\ LocationOf(a) # LocationOf(b)
            /\ TimeOf(b) - TimeOf(a) <= 10 * 60
            /\ TimeOf(a) - TimeOf(b) <= 10 * 60 }

\* the two (location, time) ends of a pair and of an alert
C7_PairEnds(pq) ==
    { <<PyStr(LocationOf(parsed_rows[pq[k]])), isoformat(TimeOf(parsed_rows[pq[k]]))>> :
        k \in {1, 2} }
C7_AlertEnds(a) == { a.locations[k] : k \in 1..Len(a.locations) }

\* the positions in alerts of the GEO_LOCATION_SWITCH alerts about customer g
C7_AlertsOf(g) ==
    { k \in 1..Len(alerts) : /\ alerts[k].type = "GEO_LOCATION_SWITCH"
                             /\ alerts[k].transactions # <<>>
                             /\ GroupKey(alerts[k].transactions[1]) = g }

\* C7: for every customer, fraud_detection emits exactly one
\* GEO_LOCATION_SWITCH alert for every unordered pair of its transactions with
\* different non-empty Location values whose timestamps are at most 10 minutes
\* apart, adjacent in time order or not, and no other.
C7_GeoPerPair ==
    pc = "detected" =>
        /\ \A g \in Customers :
              /\ Cardinality(C7_AlertsOf(g)) = Cardinality(C7_Pairs(g))
              /\ \A ends \in { C7_PairEnds(pq) : pq \in C7_Pairs(g) }
                             \cup { C7_AlertEnds(alerts[k]) : k \in C7_AlertsOf(g) } :
                    Cardinality({ k \in C7_AlertsOf(g) : C7_AlertEnds(alerts[k]) = ends })
                        = Cardinality({ pq \in C7_Pairs(g) : C7_PairEnds(pq) = ends })
        /\ \A k \in 1..Len(alerts) :
              alerts[k].type = "GEO_LOCATION_SWITCH" =>
                  \E g \in Customers : k \in C7_AlertsOf(g)

\* three located transactions of one customer, the first and the last in
\* different places exactly ten minutes apart, and two alerts about them
C7_Witness ==
    /\ pc = "detected"
    /\ \E g \in Customers :
          LET s == GroupByTime(g)
          IN  /\ Len(s) = 3
              /\ \A k \in 1..3 : LocationOf(s[k]) # <<>>
              /\ LocationOf(s[1]) # LocationOf(s[3])
              /\ TimeOf(s[3]) - TimeOf(s[1]) = 600
              /\ Cardinality(C7_AlertsOf(g)) >= 2

-----------------------------------------------------------------------------
(* Specification SpecDrain: withdrawals, reversals and amounts that are    *)
(* not numbers, up to just past ten minutes after the first                *)

S_60000 == <<"6", "0", "0", "0", "0">>
S_40000 == <<"4", "0", "0", "0", "0">>
S_minus30000 == <<"-", "3", "0", "0", "0", "0">>

MaxDrainRows == 3

DrainCells ==
    { << <<K_TransactionID, TxnId(Len(parsed_rows) + 1)>>, <<K_CustomerID, PyStr(S_C1)>>,
         <<K_TransactionType, PyStr(S_BALANCE_ENQUIRY)>>, <<K_Amount, PyStr(a)>>,
         <<K_Timestamp, TimeText(off)>> >> :
        a \in {S_60000, S_40000, S_minus30000, S_nan}, off \in {0, 600, 601} }
    \cup
    { << <<K_TransactionID, TxnId(Len(parsed_rows) + 1)>>, <<K_CustomerID, PyStr(S_C2)>>,
         <<K_TransactionType, PyStr(S_Withdrawal)>>, <<K_Amount, PyStr(S_60000)>>,
         <<K_Timestamp, TimeText(0)>> >> }

NextDrain ==
    \/ \E cells \in DrainCells : Len(parsed_rows) < MaxDrainRows /\ AddTxn(cells)
    \/ Detect

SpecDrain == InitFraud /\ [][NextDrain]_vars

\* the float sum of the amounts of the first k rows of s
RECURSIVE C8_Cumulative(_, _)
C8_Cumulative(s, k) ==
    IF k = 0 THEN PyFloat(0) ELSE FAdd(C8_Cumulative(s, k - 1), Get(s[k], K_Amount))

\* the prefixes of s that end within ten minutes (inclusive) of its first
\* timestamp and whose cumulative amount is at least 100000
C8_Prefixes(s) ==
    { k \in 1..Len(s) : /\ TimeOf(s[k]) - TimeOf(s[1]) <= 10 * 60
                        /\ FGeq(C8_Cumulative(s, k), Rupee(100000)) }

\* the positions in alerts of the BALANCE_DRAIN alerts about customer g
C8_AlertsOf(g) ==
    { k \in 1..Len(alerts) : /\ alerts[k].type = "BALANCE_DRAIN"
                             /\ alerts[k].transactions # <<>>
                             /\ GroupKey(alerts[k].transactions[1]) = g }

\* C8: fraud_detection emits at most one BALANCE_DRAIN alert per customer,
\* and emits one iff some prefix of the customer's time-sorted transactions
\* whose last transaction lies within 10 minutes (inclusive) of the first
\* timestamp has cumulative amount >= 100000.
C8_DrainPerGroup ==
    pc = "detected" =>
        /\ \A g \in Customers :
              /\ Cardinality(C8_AlertsOf(g)) <= 1
              /\ Cardinality(C8_AlertsOf(g)) = 1 <=> C8_Prefixes(GroupByTime(g)) # {}
        /\ \A k \in 1..Len(alerts) :
              alerts[k].type = "BALANCE_DRAIN" => \E g \in Customers : k \in C8_AlertsOf(g)

\* a customer alerted once although two prefixes qualify, the total reached
\* exactly ten minutes after the first transaction
C8_Witness ==
    /\ pc = "detected"
    /\ \E g \in Customers :
          LET s == GroupByTime(g)
          IN  /\ Cardinality(C8_AlertsOf(g)) = 1
              /\ Cardinality(C8_Prefixes(s)) >= 2
              /\ \A k \in C8_Prefixes(s) : TimeOf(s[k]) - TimeOf(s[1]) = 600

-----------------------------------------------------------------------------
(* Specification SpecStatusDevice: rows that carry a Status and a DeviceID, *)
(* with amounts below HIGH_VALUE_THRESHOLD                                 *)

S_FAILED == <<"F", "A", "I", "L", "E", "D">>
S_PENDING == <<"P", "E", "N", "D", "I", "N", "G">>
S_CANCELLED == <<"C", "A", "N", "C", "E", "L", "L", "E", "D">>
S_SUCCESS == <<"S", "U", "C", "C", "E", "S", "S">>
S_D1 == <<"D", "1">>
S_D2 == <<"D", "2">>
S_35000 == <<"3", "5", "0", "0", "0">>
S_45000 == <<"4", "5", "0", "0", "0">>

MaxDeviceRows == 4

StatusDeviceCells ==
    { << <<K_TransactionID, TxnId(Len(parsed_rows) + 1)>>,
         <<K_CustomerID, PyStr(<<"C">> \o NatText(Len(parsed_rows) + 1))>>,
         <<K_Amount, PyStr(a)>>, <<K_Status, PyStr(st)>>, <<K_DeviceID, PyStr(S_D1)>>,
         <<K_Timestamp, TimeText(0)>> >> :
        a \in {S_35000, S_45000}, st \in {S_FAILED, S_CANCELLED, S_PENDING} }
    \cup
    { << <<K_TransactionID, TxnId(Len(parsed_rows) + 1)>>,
         <<K_CustomerID, PyStr(<<"C">> \o NatText(Len(parsed_rows) + 1))>>,
         <<K_Amount, PyStr(S_35000)>>, <<K_Status, PyStr(S_SUCCESS)>>,
         <<K_DeviceID, PyStr(S_D2)>>, <<K_Timestamp, TimeText(0)>> >> }

NextStatusDevice ==
    \/ \E cells \in StatusDeviceCells : Len(parsed_rows) < MaxDeviceRows /\ AddTxn(cells)
    \/ Detect

SpecStatusDevice == InitFraud /\ [][NextStatusDevice]_vars

\* the alert types of rules 1 to 4
RuleTypes == {"HIGH_VALUE", "VELOCITY_ATTACK", "GEO_LOCATION_SWITCH", "BALANCE_DRAIN"}

\* a row the status-anomaly rule is about
C9_Anomalous(r) ==
    \/ /\ Get(r, K_Status) \in {PyStr(S_FAILED), PyStr(S_CANCELLED)}
       /\ FGt(Get(r, K_Amount), Rupee(40000))
    \/ /\ Get(r, K_Status) = PyStr(S_PENDING)
       /\ FGt(Get(r, K_Amount), Rupee(30000))

\* C9: the rule engine emits a status-anomaly alert for every transaction
\* whose status is FAILED or CANCELLED and whose amount is > 40000, and for
\* every transaction whose status is PENDING and whose amount is > 30000.
C9_StatusAnomalyPerRow ==
    pc = "detected" =>
        \A i \in 1..Len(parsed_rows) :
            C9_Anomalous(parsed_rows[i]) =>
                \E k \in 1..Len(alerts) :
                    /\ alerts[k].type \notin RuleTypes
                    /\ alerts[k].transaction = parsed_rows[i]

\* the rows of device d, in batch order, and the alerts listing exactly them
C10_RowsOf(d) == SelectSeq(parsed_rows, LAMBDA r : Get(r, K_DeviceID) = d)
C10_AlertsOf(d) ==
    { k \in 1..Len(alerts) :
        /\ alerts[k].type \notin RuleTypes
        /\ { alerts[k].transactions[m] : m \in 1..Len(alerts[k].transactions) }
               = { C10_RowsOf(d)[m] : m \in 1..Len(C10_RowsOf(d)) } }

\* C10: for every DeviceID with >= 4 transactions in the batch the rule engine
\* emits exactly one device-misuse alert listing all of that device's
\* transactions; devices with fewer than 4 transactions produce none.
C10_DeviceMisusePerDevice ==
    pc = "detected" =>
        \A d \in { Get(parsed_rows[i], K_DeviceID) : i \in 1..Len(parsed_rows) } :
            Cardinality(C10_AlertsOf(d)) = IF Len(C10_RowsOf(d)) >= 4 THEN 1 ELSE 0

-----------------------------------------------------------------------------
(* utils/csv_utils.py, for files without quote characters whose first      *)
(* line holds a comma (csv.Sniffer then picks the comma as the delimiter)  *)

\* s.split(c) for a one-character separator
RECURSIVE SplitOn(_, _)
SplitOn(s, c) ==
    LET i == IndexOf(s, c)
    IN  IF i = 0 THEN <<s>>
        ELSE <<SubSeq(s, 1, i - 1)>> \o SplitOn(SubSeq(s, i + 1, Len(s)), c)

\* one row of csv.DictReader: the missing cells of a short row are None
DictRow(fieldnames, cells) ==
    Row([k \in 1..Len(fieldnames) |->
            <<fieldnames[k], IF k <= Len(cells) THEN PyStr(cells[k]) ELSE PyNone>>])

DictRows(fieldnames, body) ==
    [i \in 1..Len(body) |-> DictRow(fieldnames, SplitOn(body[i], ","))]

\* csv.DictReader that also skips the rows with fewer cells than the header
DictReader_SkipShort(lines) ==
    DictRows(SplitOn(lines[1], ","),
             SelectSeq(Tail(lines),
                       LAMBDA l : Len(SplitOn(l, ",")) >= Len(SplitOn(lines[1], ","))))

\* csv.DictReader over the lines: the first line is the header, blank lines
\* are skipped (the modelled files have no row with more cells than the header)
DictReader(lines) ==
    DictRows(SplitOn(lines[1], ","), SelectSeq(Tail(lines), LAMBDA l : l # <<>>))

parse_csv(text) == IF text = <<>> THEN <<>> ELSE DictReader(SplitOn(text, "\n"))

\* sub in s, for a non-empty sub
Contains(s, sub) ==
    \E i \in 1..(Len(s) - Len(sub) + 1) : SubSeq(s, i, i + Len(sub) - 1) = sub

detect_source_type(name) ==
    LET f == StrLower(name)
    IN  IF Contains(f, <<"a", "t", "m">>) THEN "ATM"
        ELSE IF Contains(f, <<"u", "p", "i">>) THEN "UPI"
        ELSE IF Contains(f, <<"a", "c", "c", "o", "u", "n", "t">>) THEN "ACCOUNT"
        ELSE IF Contains(f, <<"c", "u", "s", "t", "o", "m", "e", "r">>) THEN "CUSTOMER"
        ELSE "UNKNOWN"

-----------------------------------------------------------------------------
(* validator/account_validator.py, processor/account_processor.py and      *)
(* alerts/profile_alerts.py                                                *)

K_Balance == <<"B", "a", "l", "a", "n", "c", "e">>
K_AccountOpenDate == <<"A", "c", "c", "o", "u", "n", "t", "O", "p", "e", "n", "D", "a", "t", "e">>
K_AccountHolderName == <<"A", "c", "c", "o", "u", "n", "t", "H", "o", "l", "d", "e", "r", "N", "a", "m", "e">>
K_BankName == <<"B", "a", "n", "k", "N", "a", "m", "e">>
K_BranchName == <<"B", "r", "a", "n", "c", "h", "N", "a", "m", "e">>
K_IFSC_Code == <<"I", "F", "S", "C", "_", "C", "o", "d", "e">>
K_AccountType == <<"A", "c", "c", "o", "u", "n", "t", "T", "y", "p", "e">>
K_AccountStatus == <<"A", "c", "c", "o", "u", "n", "t", "S", "t", "a", "t", "u", "s">>
K_Currency == <<"C", "u", "r", "r", "e", "n", "c", "y">>
K_KYC_Done == <<"K", "Y", "C", "_", "D", "o", "n", "e">>
K_KYC_DocID == <<"K", "Y", "C", "_", "D", "o", "c", "I", "D">>
K_KYC_DocumentVerificationStatus == <<"K", "Y", "C", "_", "D", "o", "c", "u", "m", "e", "n", "t", "V", "e", "r", "i", "f", "i", "c", "a", "t", "i", "o", "n", "S", "t", "a", "t", "u", "s">>
K_AnnualIncome == <<"A", "n", "n", "u", "a", "l", "I", "n", "c", "o", "m", "e">>
K_balance == <<"b", "a", "l", "a", "n", "c", "e">>
K_income == <<"i", "n", "c", "o", "m", "e">>
K_age_years == <<"a", "g", "e", "_", "y", "e", "a", "r", "s">>
P_KYC_NOT_DONE == <<"A", "L", "E", "R", "T", "_", "K", "Y", "C", "_", "N", "O", "T", "_", "D", "O", "N", "E", "_">>
P_KYC_VERIFICATION_FAILED == <<"A", "L", "E", "R", "T", "_", "K", "Y", "C", "_", "V", "E", "R", "I", "F", "I", "C", "A", "T", "I", "O", "N", "_", "F", "A", "I", "L", "E", "D", "_">>
P_ACCOUNT_DORMANT == <<"A", "L", "E", "R", "T", "_", "A", "C", "C", "O", "U", "N", "T", "_", "D", "O", "R", "M", "A", "N", "T", "_">>
P_ACCOUNT_CLOSED == <<"A", "L", "E", "R", "T", "_", "A", "C", "C", "O", "U", "N", "T", "_", "C", "L", "O", "S", "E", "D", "_">>
P_BALANCE_INCOME_MISMATCH == <<"A", "L", "E", "R", "T", "_", "B", "A", "L", "A", "N", "C", "E", "_", "I", "N", "C", "O", "M", "E", "_", "M", "I", "S", "M", "A", "T", "C", "H", "_">>
P_STALE_ACCOUNT == <<"A", "L", "E", "R", "T", "_", "S", "T", "A", "L", "E", "_", "A", "C", "C", "O", "U", "N", "T", "_">>
S_NO == <<"N", "O">>
S_FALSE == <<"F", "A", "L", "S", "E">>
S_N == <<"N">>
S_DORMANT == <<"D", "O", "R", "M", "A", "N", "T">>
S_INACTIVE == <<"I", "N", "A", "C", "T", "I", "V", "E">>
S_CLOSED == <<"C", "L", "O", "S", "E", "D">>

STALE_ACCOUNT_YEARS == 5
STALE_ACCOUNT_BALANCE_THRESHOLD == 100

UpperChar(c) ==
    IF \E i \in 1..Len(LowerLetters) : LowerLetters[i] = c
    THEN UpperLetters[CHOOSE i \in 1..Len(LowerLetters) : LowerLetters[i] = c]
    ELSE c

\* s.upper()
StrUpper(s) == [i \in 1..Len(s) |-> UpperChar(s[i])]

\* a * n on floats, for an integer n > 0
FMul(a, n) == IF a.t = "float" THEN PyFloat(a.v * n) ELSE a

\* a variant that stops at the first failed check
validate_account_row_FirstError(r) ==
    IF ~Truthy(strip(Get(r.val, K_AccountNumber))) THEN <<"Missing AccountNumber">>
    ELSE IF ~Truthy(strip(Get(r.val, K_CustomerID))) THEN <<"Missing CustomerID">>
    ELSE IF to_float(Get(r.val, K_Balance)) = PyNone THEN <<"Invalid Balance">>
    ELSE IF parse_ts(Get(r.val, K_AccountOpenDate)) = PyNone THEN <<"Invalid AccountOpenDate">>
    ELSE <<>>

validate_account_row(r) ==
    LET acc == strip(Get(r.val, K_AccountNumber))
        cust == strip(Get(r.val, K_CustomerID))
        bal == to_float(Get(r.val, K_Balance))
        dt == parse_ts(Get(r.val, K_AccountOpenDate))
    IN  (IF ~Truthy(acc) THEN <<"Missing AccountNumber">> ELSE <<>>)
        \o (IF ~Truthy(cust) THEN <<"Missing CustomerID">> ELSE <<>>)
        \o (IF bal = PyNone THEN <<"Invalid Balance">> ELSE <<>>)
        \o (IF dt = PyNone THEN <<"Invalid AccountOpenDate">> ELSE <<>>)

\* str(x) of a str or None
PyStrOf(x) == PyStr(FStr(x))

\* AccountOpenDate of the document: date only when the time is midnight
OpenIso(open_dt) ==
    IF open_dt = PyNone THEN PyNone
    ELSE IF open_dt.v % 86400 = 0
    THEN PyStr(SubSeq(isoformat(open_dt.v), 1, 10))
    ELSE PyStr(isoformat(open_dt.v))

AccountFields(n, open_iso, balance) ==
    Dict(<< <<K_AccountHolderName, strip(Get(n, K_AccountHolderName))>>,
            <<K_BankName, strip(Get(n, K_BankName))>>,
            <<K_BranchName, strip(Get(n, K_BranchName))>>,
            <<K_IFSC_Code, strip(Get(n, K_IFSC_Code))>>,
            <<K_AccountType, strip(Get(n, K_AccountType))>>,
            <<K_AccountStatus, strip(Get(n, K_AccountStatus))>>,
            <<K_AccountOpenDate, open_iso>>,
            <<K_Balance, balance>>,
            <<K_Currency, strip(Get(n, K_Currency))>>,
            <<K_KYC_Done, strip(Get(n, K_KYC_Done))>>,
            <<K_KYC_DocID, strip(Get(n, K_KYC_DocID))>>,
            <<K_KYC_DocumentVerificationStatus,
              strip(Get(n, K_KYC_DocumentVerificationStatus))>> >>)

AccountDoc(accnum, custid, account) ==
    [id |-> PyStrOf(accnum), AccountNumber |-> accnum, CustomerID |-> custid,
     Account |-> account]

_build_account_doc(normalized) ==
    AccountDoc(strip(Get(normalized.val, K_AccountNumber)),
               strip(Get(normalized.val, K_CustomerID)),
               AccountFields(normalized.val,
                             OpenIso(parse_ts(Get(normalized.val, K_AccountOpenDate))),
                             PyOr(to_float(Get(normalized.val, K_Balance)), PyFloat(0))))

\* datetime.now(timezone.utc) of the run
Now == DaysFromCivil(2026, 1, 1) * 86400 + 12 * 3600

\* one profile alert dict
ProfileAlert(prefix, type, doc, reason, payload) ==
    [id |-> prefix \o FStr(doc.AccountNumber), type |-> type,
     AccountNumber |-> doc.AccountNumber, CustomerID |-> doc.CustomerID,
     reason |-> reason, payload |-> payload]

\* acc.get(k, "").upper() of the str cells of an account
UpperOf(acc, k) == StrUpper(FStr(PyOr(Get(acc, k), PyStr(<<>>))))

\* whole days from the open date to now
AgeDays(open_date) == (Now - open_date.v) \div 86400

\* the six rules, in the order of the code
ProfileRules(account_doc, customer_doc, acc, kyc_done, kyc_ver, status, bal, inc, open_date) ==
    (IF kyc_done \in {S_NO, S_FALSE, <<"0">>, S_N}
     THEN <<ProfileAlert(P_KYC_NOT_DONE, "KYC_NOT_DONE", account_doc,
                         <<"KYC is not completed">>, acc)>>
     ELSE <<>>)
    \o (IF kyc_ver = S_FAILED
        THEN <<ProfileAlert(P_KYC_VERIFICATION_FAILED, "KYC_VERIFICATION_FAILED",
                            account_doc, <<"KYC verification failed">>, acc)>>
        ELSE <<>>)
    \o (IF status \in {S_DORMANT, S_INACTIVE}
        THEN <<ProfileAlert(P_ACCOUNT_DORMANT, "ACCOUNT_DORMANT", account_doc,
                            <<"Account is dormant or inactive">>, acc)>>
        ELSE <<>>)
    \o (IF status = S_CLOSED
        THEN <<ProfileAlert(P_ACCOUNT_CLOSED, "ACCOUNT_CLOSED", account_doc,
                            <<"Account is closed">>, acc)>>
        ELSE <<>>)
    \o (IF /\ customer_doc # NoDict
           /\ FGt(inc, PyFloat(0))
           /\ FGt(bal, FMul(inc, 10))
        THEN <<ProfileAlert(P_BALANCE_INCOME_MISMATCH, "BALANCE_INCOME_MISMATCH",
                            account_doc,
                            <<"Balance {} greatly exceeds declared income {}", bal, inc>>,
                            Dict(<< <<K_balance, bal>>, <<K_income, inc>> >>))>>
        ELSE <<>>)
    \o (IF /\ open_date # PyNone
           /\ AgeDays(open_date) >= STALE_ACCOUNT_YEARS * 365
           /\ FLt(bal, Rupee(STALE_ACCOUNT_BALANCE_THRESHOLD))
        THEN <<ProfileAlert(P_STALE_ACCOUNT, "STALE_ACCOUNT", account_doc,
                            <<"Account is very old and balance is too low">>,
                            Dict(<< <<K_age_years,
                                      PyFloat((AgeDays(open_date) * 100) \div 365)>>,
                                    <<K_balance, bal>> >>))>>
        ELSE <<>>)

ProfileOf(account_doc, customer_doc, acc) ==
    ProfileRules(account_doc, customer_doc, acc,
                 UpperOf(acc, K_KYC_Done),
                 UpperOf(acc, K_KYC_DocumentVerificationStatus),
                 UpperOf(acc, K_AccountStatus),
                 PyOr(to_float(Get(acc, K_Balance)), PyFloat(0)),
                 PyOr(to_float(Get(customer_doc, K_AnnualIncome)), PyFloat(0)),
                 parse_ts(Get(acc, K_AccountOpenDate)))

\* a variant that returns after the first rule that fires
generate_profile_alerts_FirstOnly(account_doc, customer_doc) ==
    SubSeq(ProfileOf(account_doc, customer_doc, account_doc.Account), 1, 1)

\* customer_doc is NoDict when the caller has none
generate_profile_alerts(account_doc, customer_doc) ==
    ProfileOf(account_doc, customer_doc, account_doc.Account)

-----------------------------------------------------------------------------
(* client/cosmos_client.py and the processors.  faults is the set of       *)
(* positions, in call order within one processor run, of the upserts that  *)
(* still fail after the retries of _retry_op.                              *)

\* _sanitize_for_cosmos on a dict of values: datetimes become ISO strings
_sanitize_for_cosmos(d) ==
    [k \in DOMAIN d |-> IF d[k].t = "datetime" THEN PyStr(isoformat(d[k].v)) ELSE d[k]]

\* for item in items: upsert_item(container, item), the calls numbered from
\* base + 1; the first failing call raises
UpsertEach(items, base, faults) ==
    LET failing == { k \in 1..Len(items) : base + k \in faults }
        first == IF failing = {} THEN 0
                 ELSE CHOOSE k \in failing : \A m \in failing : k <= m
    IN  [raised |-> first # 0,
         stored |-> IF first = 0 THEN items ELSE SubSeq(items, 1, first - 1)]

\* the same calls where a failure is caught (or counted) and the loop goes on
UpsertTolerant(items, base, faults) ==
    LET ok == { k \in 1..Len(items) : base + k \notin faults }
    IN  [successes |-> Cardinality(ok),
         failures |-> Len(items) - Cardinality(ok),
         stored |-> Flatten([k \in 1..Len(items) |->
                                IF k \in ok THEN <<items[k]>> ELSE <<>>])]

\* the alert document with an id that counts the documents already stored
AlertDoc_Sequential(alert) ==
    [id |-> alert.alert_id \o <<"_">> \o NatText(Len(alert_container)),
     alert_id |-> alert.alert_id,
     type |-> alert.type,
     reason |-> alert.reason,
     created_at |-> PyNone,
     payload |-> [t |-> "list", d |-> NoDict, l |-> <<>>],
     AccountNumber |-> PyStr(S_UNKNOWN)]

\* the alert document a = {...} built by process_atm and process_upi
AlertDoc(alert) ==
    LET one == "transaction" \in alert.keys
    IN  [id |-> alert.alert_id,
         alert_id |-> alert.alert_id,
         type |-> alert.type,
         reason |-> alert.reason,
         created_at |-> IF one THEN Get(alert.transaction, K_Timestamp) ELSE PyNone,
         payload |-> IF one /\ alert.transaction # NoDict
                     THEN [t |-> "dict", d |-> _sanitize_for_cosmos(alert.transaction),
                           l |-> <<>>]
                     ELSE [t |-> "list", d |-> NoDict,
                           l |-> [k \in 1..Len(alert.transactions) |->
                                     _sanitize_for_cosmos(alert.transactions[k])]],
         AccountNumber |-> IF one /\ K_AccountNumber \in DOMAIN alert.transaction
                           THEN alert.transaction[K_AccountNumber]
                           ELSE PyStr(S_UNKNOWN)]

\* r["id"] = str(r.get("TransactionID"))
WithId(r) == Put(r, K_id, PyStrOf(Get(r, K_TransactionID)))

\* list(rows[0].keys()) if rows else []
Header(rows) == IF rows # <<>> THEN rows[1].keys ELSE <<>>

\* a variant that lists the rejected rows last to first
BadRows_Reversed(rows, bad, header) ==
    Flatten([i \in 1..Len(rows) |->
        IF bad[Len(rows) + 1 - i]
        THEN << [h \in 1..Len(header) |-> rows[Len(rows) + 1 - i].val[header[h]]] >>
        ELSE <<>>])

\* the rejected rows as lists of raw cells in header order
BadRows(rows, bad, header) ==
    Flatten([i \in 1..Len(rows) |->
        IF bad[i]
        THEN << [h \in 1..Len(header) |-> rows[i].val[header[h]]] >>
        ELSE <<>>])

\* the cleaned rows of the accepted rows, stamped with "id"
ValidDocs(v) ==
    Flatten([i \in 1..Len(v) |->
        IF v[i].errors # <<>> THEN <<>> ELSE <<WithId(v[i].cleaned)>>])

\* the outcome of a run: what reached the containers and the result dict
TransactionsOutcome(total, header, bad_rows, docs, up, fd, aup, source) ==
    [raised |-> up.raised \/ fd.raised \/ aup.raised,
     container |-> up.stored,
     valid_rows |-> IF up.raised THEN <<>> ELSE docs,
     alert_container |-> IF up.raised \/ fd.raised THEN <<>> ELSE aup.stored,
     result |-> [rows_parsed |-> total, valid |-> Len(docs),
                 invalid |-> Len(bad_rows), quarantined |-> Len(bad_rows),
                 alerts |-> Len(fd.alerts),
                 bad_rows |-> IF source = "ATM" THEN bad_rows ELSE <<>>,
                 header |-> IF source = "ATM" THEN header ELSE <<>>]]

\* the alert documents upserted after the transactions
TransactionsAlerts(total, header, bad_rows, docs, up, fd, source, faults) ==
    TransactionsOutcome(total, header, bad_rows, docs, up, fd,
        UpsertEach([k \in 1..Len(fd.alerts) |-> AlertDoc(fd.alerts[k])],
                   Len(docs), faults),
        source)

\* the valid rows upserted, then fraud_detection on them
TransactionsStored(total, header, bad_rows, docs, source, faults) ==
    TransactionsAlerts(total, header, bad_rows, docs,
        UpsertEach([i \in 1..Len(docs) |-> _sanitize_for_cosmos(docs[i])], 0, faults),
        fraud_detection(docs), source, faults)

TransactionsValidated(rows, v, source, faults) ==
    TransactionsStored(Len(rows), Header(rows),
        BadRows(rows, [i \in 1..Len(rows) |-> v[i].errors # <<>>], Header(rows)),
        ValidDocs(v), source, faults)

TransactionsParsed(rows, source, faults) ==
    TransactionsValidated(rows,
        [i \in 1..Len(rows) |-> validate_transaction_row(rows[i], source)],
        source, faults)

\* the body shared by process_atm and process_upi
ProcessTransactions(text, source, faults) ==
    TransactionsParsed(parse_csv(text), source, faults)

process_atm(text, faults) == ProcessTransactions(text, "ATM", faults)
process_upi(text, faults) == ProcessTransactions(text, "UPI", faults)

\* the customer_doc found for cid among the documents already in the container
CustomerDoc(existing, cid) ==
    LET items == SelectSeq(existing, LAMBDA d : d.CustomerID = cid)
    IN  IF items = <<>> THEN NoDict ELSE Dict(<< <<K_CustomerID, items[1].CustomerID>> >>)

\* the outcome of a run over a non-empty file
ProfilesOutcome(total, bad_rows, docs, aup, dup) ==
    [raised |-> FALSE, container |-> dup.stored, valid_rows |-> <<>>,
     alert_container |-> aup.stored,
     result |-> [rows_parsed |-> total, valid |-> Len(docs),
                 invalid |-> Len(bad_rows), quarantined |-> Len(bad_rows),
                 alerts |-> aup.successes,
                 bad_rows |-> <<>>, header |-> <<>>]]

\* the alerts upserted one by one, then the documents
ProfilesAlerted(total, bad_rows, docs, all_alerts, faults) ==
    ProfilesOutcome(total, bad_rows, docs,
                    UpsertTolerant(all_alerts, 0, faults),
                    UpsertTolerant(docs, Len(all_alerts), faults))

ProfilesBuilt(total, bad_rows, docs, existing, faults) ==
    ProfilesAlerted(total, bad_rows, docs,
        Flatten([i \in 1..Len(docs) |->
            generate_profile_alerts(docs[i], CustomerDoc(existing, docs[i].CustomerID))]),
        faults)

ProfilesValidated(rows, bad, existing, faults) ==
    ProfilesBuilt(Len(rows), BadRows(rows, bad, Header(rows)),
        Flatten([i \in 1..Len(rows) |->
            IF bad[i] THEN <<>> ELSE <<_build_account_doc(rows[i])>>]),
        existing, faults)

ProfilesParsed(rows, existing, faults) ==
    IF Len(rows) = 0
    THEN [raised |-> FALSE, container |-> <<>>, valid_rows |-> <<>>,
          alert_container |-> <<>>,
          result |-> [rows_parsed |-> 0, valid |-> 0, invalid |-> 0,
                      quarantined |-> 0, alerts |-> 0,
                      bad_rows |-> <<>>, header |-> <<>>]]
    ELSE ProfilesValidated(rows,
             [i \in 1..Len(rows) |-> validate_account_row(rows[i]) # <<>>],
             existing, faults)

process_account_profiles(text, existing, faults) ==
    ProfilesParsed(parse_csv(text), existing, faults)

-----------------------------------------------------------------------------
(* Specification Spec: BatchIngestionFunction.main on one queue message    *)
(* that carries file_url and file_name                                     *)

H_Transactions == <<"T", "r", "a", "n", "s", "a", "c", "t", "i", "o", "n", "I", "D", ",", "C", "u", "s", "t", "o", "m", "e", "r", "I", "D", ",", "A", "m", "o", "u", "n", "t", ",", "T", "i", "m", "e", "s", "t", "a", "m", "p">>
L_valid == <<"T", "1", ",", "C", "1", ",", "1", "0", "0", ",", "2", "0", "2", "4", "-", "0", "1", "-", "0", "1", "T", "1", "0", ":", "0", "0", ":", "0", "0">>
L_high == <<"T", "2", ",", "C", "1", ",", "7", "5", "0", "0", "0", ",", "2", "0", "2", "4", "-", "0", "1", "-", "0", "1", " ", "1", "0", ":", "0", "1", ":", "0", "0">>
L_bad_amount == <<"T", "3", ",", "C", "1", ",", "a", "b", "c", ",", "2", "0", "2", "4", "-", "0", "1", "-", "0", "1", "T", "1", "0", ":", "0", "2", ":", "0", "0">>
L_no_id == <<",", "C", "1", ",", "1", "0", "0", ",", "2", "0", "2", "4", "-", "0", "1", "-", "0", "1", "T", "1", "0", ":", "0", "3", ":", "0", "0">>
L_nan == <<"T", "5", ",", "C", "1", ",", "n", "a", "n", ",", "2", "0", "2", "4", "-", "0", "1", "-", "0", "1", "T", "1", "0", ":", "0", "4", ":", "0", "0">>
L_short == <<"T", "6", ",", "C", "1">>
H_Accounts == <<"A", "c", "c", "o", "u", "n", "t", "N", "u", "m", "b", "e", "r", ",", "C", "u", "s", "t", "o", "m", "e", "r", "I", "D", ",", "B", "a", "l", "a", "n", "c", "e", ",", "A", "c", "c", "o", "u", "n", "t", "O", "p", "e", "n", "D", "a", "t", "e", ",", "K", "Y", "C", "_", "D", "o", "n", "e">>
A_valid == <<"A", "1", ",", "C", "1", ",", "1", "0", "0", "0", ",", "2", "0", "2", "4", "-", "0", "1", "-", "0", "1", ",", "y", "e", "s">>
A_stale == <<"A", "2", ",", "C", "1", ",", "5", "0", ",", "2", "0", "1", "9", "-", "0", "6", "-", "0", "1", ",", "n", "o">>
A_bad_balance == <<"A", "3", ",", "C", "1", ",", "a", "b", "c", ",", "2", "0", "2", "4", "-", "0", "1", "-", "0", "1", ",", "y", "e", "s">>
A_no_number == <<",", "C", "1", ",", "1", "0", "0", "0", ",", "2", "0", "2", "4", "-", "0", "1", "-", "0", "1", ",", "y", "e", "s">>
A_short == <<"A", "5", ",", "C", "2", ",", "1", "0", "0", "0">>
N_atm == <<"a", "t", "m", "_", "2", "0", "2", "4", "0", "1", "0", "1", ".", "c", "s", "v">>
N_upi == <<"U", "P", "I", "_", "j", "a", "n", ".", "c", "s", "v">>
N_account == <<"a", "c", "c", "o", "u", "n", "t", "_", "m", "a", "s", "t", "e", "r", ".", "c", "s", "v">>
N_other == <<"t", "r", "a", "n", "s", "a", "c", "t", "i", "o", "n", "s", ".", "c", "s", "v">>

MaxFileRows == 2
MaxFaultPos == 3
MaxFaults == 1

\* the text of a file: the header line, then the data lines
RECURSIVE JoinLines(_)
JoinLines(lines) ==
    IF lines = <<>> THEN <<>> ELSE <<"\n">> \o lines[1] \o JoinLines(Tail(lines))

FileTexts(header, pool) ==
    {<<>>} \cup { header \o JoinLines(ls) :
                    ls \in UNION { [1..n -> pool] : n \in 0..MaxFileRows } }

TransactionLines == {L_valid, L_high, L_bad_amount, L_no_id, L_nan, L_short, <<>>}
AccountLines == {A_valid, A_stale, A_bad_balance, A_no_number, A_short, <<>>}

\* the blobs a message may point to
Files ==
    ({N_atm, N_upi} \X FileTexts(H_Transactions, TransactionLines))
    \cup ({N_account} \X FileTexts(H_Accounts, AccountLines))
    \cup ({N_other} \X {H_Transactions \o JoinLines(<<L_valid>>)})

FaultSets == { F \in SUBSET (1..MaxFaultPos) : Cardinality(F) <= MaxFaults }

\* a variant in which only the COMPLETED record changes the status
Metadata_StatusKept(status, keys, r) ==
    [file_name |-> file_name, source_type |-> source_type,
     status |-> IF status = "COMPLETED" THEN status ELSE "PROCESSING",
     keys |-> keys, rows_parsed |-> r.rows_parsed, valid |-> r.valid,
     invalid |-> r.invalid, quarantined |-> r.quarantined,
     alerts_generated |-> r.alerts]

\* one record written by write_metadata_blob; keys names the optional
\* entries it holds
Metadata(status, keys, r) ==
    [file_name |-> file_name, source_type |-> source_type, status |-> status,
     keys |-> keys, rows_parsed |-> r.rows_parsed, valid |-> r.valid,
     invalid |-> r.invalid, quarantined |-> r.quarantined,
     alerts_generated |-> r.alerts]

NoResult ==
    [rows_parsed |-> 0, valid |-> 0, invalid |-> 0, quarantined |-> 0, alerts |-> 0,
     bad_rows |-> <<>>, header |-> <<>>]

Init ==
    /\ pc = "queued"
    /\ \E f \in Files : file_name = f[1] /\ file_text = f[2]
    /\ source_type = "UNKNOWN"
    /\ metadata = <<>>
    /\ quarantine = <<>>
    /\ container = <<>>
    /\ valid_rows = <<>>
    /\ alert_container = <<>>
    /\ result = <<>>
    /\ message = <<>>
    /\ client = <<>>
    /\ IdleValidate
    /\ IdleFraud

\* steps 1 and 2 of main: detect the source type, write the PROCESSING record
Start ==
    /\ pc = "queued"
    /\ source_type' = detect_source_type(file_name)
    /\ metadata' = Append(metadata,
                          [Metadata("PROCESSING", {"started_at"}, NoResult)
                              EXCEPT !.source_type = source_type'])
    /\ pc' = "started"
    /\ UNCHANGED <<message, client, file_name, file_text, quarantine, container, valid_rows,
                   alert_container, result, varsValidate, varsFraud>>

\* step 3: read_blob_text returns the text
Download ==
    /\ pc = "started"
    /\ pc' = "downloaded"
    /\ UNCHANGED <<varsMain, varsValidate, varsFraud>>

\* step 3: read_blob_text raises
DownloadFails ==
    /\ pc = "started"
    /\ metadata' = Append(metadata, Metadata("DOWNLOAD_FAILED", {"started_at", "error"},
                                             NoResult))
    /\ pc' = "returned"
    /\ UNCHANGED <<message, client, file_name, file_text, source_type, quarantine, container, valid_rows,
                   alert_container, result, varsValidate, varsFraud>>

\* step 4: the processor of the source type runs
Process(faults) ==
    /\ pc = "downloaded"
    /\ source_type # "CUSTOMER"
    /\ IF source_type \in {"ATM", "UPI", "ACCOUNT"}
       THEN \E p \in {CASE source_type = "ATM" -> process_atm(file_text, faults)
                     [] source_type = "UPI" -> process_upi(file_text, faults)
                     [] source_type = "ACCOUNT" ->
                            process_account_profiles(file_text, container, faults)} :
                /\ container' = container \o p.container
                /\ valid_rows' = p.valid_rows
                /\ alert_container' = alert_container \o p.alert_container
                /\ IF p.raised
                   THEN /\ metadata' = Append(metadata,
                                              Metadata("PROCESSOR_FAILED",
                                                       {"started_at", "error"}, NoResult))
                        /\ pc' = "returned"
                        /\ UNCHANGED result
                   ELSE /\ result' = <<p.result>>
                        /\ pc' = "processed"
                        /\ UNCHANGED metadata
       ELSE /\ metadata' = Append(metadata,
                                  Metadata("UNKNOWN_SOURCE", {"started_at"}, NoResult))
            /\ pc' = "returned"
            /\ UNCHANGED <<container, valid_rows, alert_container, result>>
    /\ UNCHANGED <<message, client, file_name, file_text, source_type, quarantine, varsValidate, varsFraud>>

\* steps 5 and 6: the invalid rows are logged, the COMPLETED record is written
Complete ==
    /\ pc = "processed"
    /\ metadata' = Append(metadata,
                          Metadata("COMPLETED",
                                   {"started_at", "completed_at", "rows_parsed", "valid",
                                    "invalid", "quarantined", "alerts_generated"},
                                   result[1]))
    /\ pc' = "returned"
    /\ UNCHANGED <<message, client, file_name, file_text, source_type, quarantine, container, valid_rows,
                   alert_container, result, varsValidate, varsFraud>>

Next ==
    \/ Start
    \/ Download
    \/ DownloadFails
    \/ \E faults \in FaultSets : Process(faults)
    \/ Complete

Spec == Init /\ [][Next]_vars

-----------------------------------------------------------------------------
(* C2, C3, C4 *)

\* the status of the last metadata record written, "" before the first
LastStatus == IF metadata = <<>> THEN "" ELSE metadata[Len(metadata)].status

\* d is a row that validate_transaction_row returned without errors
C2_FromValidRow(d) ==
    \E i \in 1..Len(parse_csv(file_text)) :
        LET v == validate_transaction_row(parse_csv(file_text)[i], source_type)
        IN  v.errors = <<>> /\ WithId(v.cleaned) = d

\* the Timestamp of d is an ISO-8601 string with the UTC offset
C2_IsoUtc(d) ==
    LET x == Get(d, K_Timestamp)
    IN  /\ x.t = "str"
        /\ DateParse(x.s).ok
        /\ x.s = isoformat(DateParse(x.s).secs)

C2_WellFormed(d) ==
    /\ C2_FromValidRow(d)
    /\ Get(d, K_TransactionID).t = "str"
    /\ Get(d, K_TransactionID).s # <<>>
    /\ Get(d, K_Amount).t = "float"
    /\ C2_IsoUtc(d)

\* C2: in process_atm and process_upi every row upserted to the transaction
\* container or passed to fraud_detection comes from a row without validation
\* errors and has a non-empty TransactionID, a numeric Amount and a Timestamp
\* stored as an ISO-8601 UTC string.
C2_OnlyWellFormedRowsAccepted ==
    source_type \in {"ATM", "UPI"} =>
        /\ \A k \in 1..Len(container) : C2_WellFormed(container[k])
        /\ \A k \in 1..Len(valid_rows) : C2_WellFormed(valid_rows[k])

\* the same with an Amount that may be the float nan
C2_AcceptedUpToNaN ==
    source_type \in {"ATM", "UPI"} =>
        \A k \in 1..Len(container) :
            /\ C2_FromValidRow(container[k])
            /\ Get(container[k], K_TransactionID).s # <<>>
            /\ Get(container[k], K_Amount).t \in {"float", "nan"}
            /\ C2_IsoUtc(container[k])

\* the number of non-empty lines of the text after its first line
C3_DataLines(text) ==
    Cardinality({ i \in 2..Len(text) : text[i - 1] = "\n" /\ text[i] # "\n" })

\* C3: the summary returned by process_atm, process_upi and
\* process_account_profiles satisfies rows_parsed = valid + invalid and
\* quarantined = invalid, and rows_parsed counts every data row of the file;
\* the COMPLETED metadata record carries the same counts.
C3_SummaryCountsEveryRow ==
    result # <<>> =>
        LET r == result[1]
        IN  /\ r.rows_parsed = r.valid + r.invalid
            /\ r.quarantined = r.invalid
            /\ r.rows_parsed = C3_DataLines(file_text)
            /\ LastStatus = "COMPLETED" =>
                  LET m == metadata[Len(metadata)]
                  IN  /\ m.rows_parsed = m.valid + m.invalid
                      /\ m.quarantined = m.invalid
                      /\ m.rows_parsed = r.rows_parsed

\* an account file with a valid row and a short row, summarised and COMPLETED
C3_Witness ==
    /\ LastStatus = "COMPLETED"
    /\ source_type = "ACCOUNT"
    /\ result[1].valid = 1
    /\ result[1].invalid = 1
    /\ Contains(file_text, A_short)

\* C4: whenever the batch holds a row that fails validation, the rejected
\* rows and the original header are written to quarantine storage before the
\* metadata is marked COMPLETED.
C4_QuarantineBeforeCompleted ==
    (LastStatus = "COMPLETED" /\ metadata[Len(metadata)].quarantined > 0) =>
        /\ quarantine # <<>>
        /\ quarantine[Len(quarantine)].header = SplitOn(file_text, "\n")[1]
        /\ Len(quarantine[Len(quarantine)].bad_rows) = metadata[Len(metadata)].quarantined
-----------------------------------------------------------------------------
(* Specification SpecRerun: the same ATM or UPI file handed twice to its   *)
(* processor, the containers kept between the runs.  A container is the    *)
(* log of the documents upserted to it; upsert_item replaces the document  *)
(* of the same id, so the documents it holds are one per id of the log.    *)

\* the ids of the documents of the transaction container
TxnIds(c) == { Get(c[k], K_id) : k \in 1..Len(c) }

\* the ids of the documents of the alert container
AlertIds(c) == { c[k].id : k \in 1..Len(c) }

InitRerun ==
    /\ pc = "fresh"
    /\ \E f \in ({N_atm, N_upi} \X FileTexts(H_Transactions, TransactionLines)) :
           /\ file_name = f[1]
           /\ file_text = f[2]
           /\ source_type = detect_source_type(f[1])
    /\ metadata = <<>>
    /\ quarantine = <<>>
    /\ container = <<>>
    /\ valid_rows = <<>>
    /\ alert_container = <<>>
    /\ result = <<>>
    /\ message = <<>>
    /\ client = <<>>
    /\ IdleValidate
    /\ IdleFraud

\* one run of process_atm / process_upi on the file
Rerun(faults) ==
    /\ pc \in {"fresh", "once"}
    /\ \E p \in {IF source_type = "ATM" THEN process_atm(file_text, faults)
                 ELSE process_upi(file_text, faults)} :
           /\ container' = container \o p.container
           /\ valid_rows' = p.valid_rows
           /\ alert_container' = alert_container \o p.alert_container
           /\ result' = IF p.raised THEN <<>> ELSE <<p.result>>
    /\ pc' = IF pc = "fresh" THEN "once" ELSE "twice"
    /\ UNCHANGED <<message, client, file_name, file_text, source_type, metadata, quarantine,
                   varsValidate, varsFraud>>

NextRerun == \E faults \in FaultSets : Rerun(faults)

SpecRerun == InitRerun /\ [][NextRerun]_vars

-----------------------------------------------------------------------------
(* Specification SpecBadRows: fraud_detection called on rows that were not *)
(* validated, some with an Amount or a Timestamp that does not parse       *)

MaxBadRows == 3

BadRowCells ==
    { << <<K_TransactionID, TxnId(Len(parsed_rows) + 1)>>, <<K_CustomerID, PyStr(S_C1)>>,
         <<K_Amount, PyStr(a)>>, <<K_Timestamp, t>>, <<K_Location, PyStr(l)>> >> :
        a \in {S_60000, S_abc},
        t \in {TimeText(0), TimeText(660), PyStr(S_abc)},
        l \in {S_Mumbai, S_Delhi} }

\* one more row at the end of the batch, as the caller built it
AddRaw(cells) ==
    /\ pc = "batch"
    /\ parsed_rows' = Append(parsed_rows, Dict(cells))
    /\ UNCHANGED <<pc, alerts, by_customer, varsValidate, varsMain>>

NextBadRows ==
    \/ \E cells \in BadRowCells : Len(parsed_rows) < MaxBadRows /\ AddRaw(cells)
    \/ Detect

SpecBadRows == InitFraud /\ [][NextBadRows]_vars

C12_BadAmount(r) == Get(r, K_Amount) = PyStr(S_abc)
C12_BadTime(r) == Get(r, K_Timestamp) = PyStr(S_abc)

\* id, type and reason of the alerts of one type
C12_Core(as, type) ==
    [k \in 1..Len(OfType(as, type)) |->
        <<OfType(as, type)[k].alert_id, OfType(as, type)[k].type,
          OfType(as, type)[k].reason>>]

\* the batch without the rows a rule has to skip
C12_AmountsParse == SelectSeq(parsed_rows, LAMBDA r : ~C12_BadAmount(r))
C12_TimesParse == SelectSeq(parsed_rows, LAMBDA r : ~C12_BadTime(r))
C12_BothParse == SelectSeq(parsed_rows, LAMBDA r : ~C12_BadAmount(r) /\ ~C12_BadTime(r))

\* the batch without the rows whose time does not parse, an amount that does
\* not parse replaced by 0
C12_ZeroedAmounts ==
    [k \in 1..Len(C12_TimesParse) |->
        IF C12_BadAmount(C12_TimesParse[k])
        THEN Put(C12_TimesParse[k], K_Amount, PyFloat(0))
        ELSE C12_TimesParse[k]]

\* fraud_detection returns; rule 1 is as without the bad amounts, rules 2
\* and 3 are as without the bad timestamps
C12_RulesOneToThree ==
    /\ pc = "detected"
    /\ OfType(alerts, "HIGH_VALUE")
           = OfType(fraud_detection(C12_AmountsParse).alerts, "HIGH_VALUE")
    /\ \A type \in {"VELOCITY_ATTACK", "GEO_LOCATION_SWITCH"} :
           OfType(alerts, type) = OfType(fraud_detection(C12_TimesParse).alerts, type)

\* C12: a row whose Amount or Timestamp does not parse inside fraud_detection
\* never makes it raise; the row is skipped for the affected rule only, and
\* the alerts of every rule are those the rule gives without the rows it
\* skips (no HIGH_VALUE alert for a bad amount, no grouped rule sees a row
\* with a bad timestamp, the balance-drain rule is as without the bad rows).
C12_BadRowsSkippedPerRule ==
    pc # "batch" =>
        /\ C12_RulesOneToThree
        /\ C12_Core(alerts, "BALANCE_DRAIN")
               = C12_Core(fraud_detection(C12_BothParse).alerts, "BALANCE_DRAIN")

\* what the code does for rule 4: a bad amount adds 0 to the running total,
\* the row stays in its group (it can open the ten-minute window)
C12_BadAmountCountsZero ==
    pc # "batch" =>
        /\ C12_RulesOneToThree
        /\ C12_Core(alerts, "BALANCE_DRAIN")
               = C12_Core(fraud_detection(C12_ZeroedAmounts).alerts, "BALANCE_DRAIN")
-----------------------------------------------------------------------------
(* Specification SpecProfile: one account row is built into its document   *)
(* and profiled, with or without a matched customer document               *)

S_no == <<"n", "o">>
S_False == <<"F", "a", "l", "s", "e">>
S_n == <<"n">>
S_yes == <<"y", "e", "s">>
S_Failed == <<"F", "a", "i", "l", "e", "d">>
S_Verified == <<"V", "e", "r", "i", "f", "i", "e", "d">>
S_Dormant == <<"D", "o", "r", "m", "a", "n", "t">>
S_inactive == <<"i", "n", "a", "c", "t", "i", "v", "e">>
S_Closed == <<"C", "l", "o", "s", "e", "d">>
S_Active == <<"A", "c", "t", "i", "v", "e">>
S_600000 == <<"6", "0", "0", "0", "0", "0">>
S_500000 == <<"5", "0", "0", "0", "0", "0">>
S_500000_01 == <<"5", "0", "0", "0", "0", "0", ".", "0", "1">>
S_99_99 == <<"9", "9", ".", "9", "9">>
S_2021_01_01 == <<"2", "0", "2", "1", "-", "0", "1", "-", "0", "1">>
S_2021_01_02 == <<"2", "0", "2", "1", "-", "0", "1", "-", "0", "2">>
S_2021_01_03 == <<"2", "0", "2", "1", "-", "0", "1", "-", "0", "3">>
S_2019_06_01 == <<"2", "0", "1", "9", "-", "0", "6", "-", "0", "1">>
S_2024_01_01 == <<"2", "0", "2", "4", "-", "0", "1", "-", "0", "1">>

KycDoneCells == {PyStr(S_no), PyStr(S_False), PyStr(S_0), PyStr(S_n), PyStr(S_yes), PyNone}
KycStatusCells == {PyStr(S_Failed), PyStr(S_Verified)}
AccountStatusCells == {PyStr(S_Dormant), PyStr(S_inactive), PyStr(S_Closed), PyStr(S_Active)}
BalanceCells == {PyStr(S_600000), PyStr(S_500000), PyStr(S_500000_01), PyStr(S_99_99), PyStr(S_100), PyStr(S_abc)}
OpenDateCells == {PyStr(S_2021_01_01), PyStr(S_2021_01_02), PyStr(S_2021_01_03), PyStr(S_2019_06_01), PyStr(S_2024_01_01), PyStr(S_abc)}

\* the customer document handed to generate_profile_alerts, NoDict for none
CustomerDocs ==
    {NoDict} \cup { Dict(<< <<K_CustomerID, PyStr(S_C1)>>, <<K_AnnualIncome, i>> >>) : i \in {PyStr(S_50000), PyStr(S_0), PyStr(S_minus5), PyStr(S_abc), PyNone} }

\* one row of an accounts file
AccountRow(kyc, ver, status, bal, open) ==
    Row(<< <<K_AccountNumber, PyStr(S_A1)>>, <<K_CustomerID, PyStr(S_C1)>>,
           <<K_Balance, bal>>, <<K_AccountOpenDate, open>>, <<K_KYC_Done, kyc>>,
           <<K_KYC_DocumentVerificationStatus, ver>>, <<K_AccountStatus, status>> >>)

InitProfile ==
    /\ pc = "account"
    /\ \E kyc \in KycDoneCells, ver \in KycStatusCells, status \in AccountStatusCells, bal \in BalanceCells, open \in OpenDateCells :
           row = AccountRow(kyc, ver, status, bal, open)
    /\ vcleaned \in CustomerDocs
    /\ verrors = <<>>
    /\ IdleFraud
    /\ IdleMain

\* doc = _build_account_doc(row)
BuildDoc ==
    /\ pc = "account"
    /\ parsed_rows' = <<_build_account_doc(row)>>
    /\ pc' = "built"
    /\ UNCHANGED <<alerts, by_customer, varsValidate, varsMain>>

\* alerts = generate_profile_alerts(doc, customer_doc)
Profile ==
    /\ pc = "built"
    /\ alerts' = generate_profile_alerts(parsed_rows[1], vcleaned)
    /\ pc' = "profiled"
    /\ UNCHANGED <<parsed_rows, by_customer, varsValidate, varsMain>>

NextProfile == BuildDoc \/ Profile

SpecProfile == InitProfile /\ [][NextProfile]_vars

\* the text of a cell of the profiled row, "" when it is missing
C13_Cell(k) == StrLower(FStr(PyOr(Get(row.val, k), PyStr(<<>>))))

C13_Types == { alerts[i].type : i \in 1..Len(alerts) }

C13_Prefix ==
    [KYC_NOT_DONE |-> P_KYC_NOT_DONE, KYC_VERIFICATION_FAILED |-> P_KYC_VERIFICATION_FAILED,
     ACCOUNT_DORMANT |-> P_ACCOUNT_DORMANT, ACCOUNT_CLOSED |-> P_ACCOUNT_CLOSED,
     BALANCE_INCOME_MISMATCH |-> P_BALANCE_INCOME_MISMATCH, STALE_ACCOUNT |-> P_STALE_ACCOUNT]

\* C13: after generate_profile_alerts, KYC_NOT_DONE is among the alerts iff
\* KYC_Done is no/false/0/n in any letter case, KYC_VERIFICATION_FAILED iff the
\* verification status is FAILED in any case, ACCOUNT_DORMANT iff the account
\* status is DORMANT or INACTIVE, ACCOUNT_CLOSED iff it is CLOSED, each
\* whatever the other rules gave; every alert has the id
\* ALERT_<type>_<AccountNumber> and no type occurs twice.
C13_SixIndependentChecks ==
    pc = "profiled" =>
        /\ "KYC_NOT_DONE" \in C13_Types <=> C13_Cell(K_KYC_Done) \in {S_no, StrLower(S_False), S_0, S_n}
        /\ "KYC_VERIFICATION_FAILED" \in C13_Types <=> C13_Cell(K_KYC_DocumentVerificationStatus) = StrLower(S_Failed)
        /\ "ACCOUNT_DORMANT" \in C13_Types <=> C13_Cell(K_AccountStatus) \in {StrLower(S_Dormant), S_inactive}
        /\ "ACCOUNT_CLOSED" \in C13_Types <=> C13_Cell(K_AccountStatus) = StrLower(S_Closed)
        /\ \A i \in 1..Len(alerts) :
               /\ alerts[i].type \in DOMAIN C13_Prefix
               /\ alerts[i].id = C13_Prefix[alerts[i].type] \o S_A1
               /\ \A j \in 1..Len(alerts) : alerts[j].type = alerts[i].type => j = i

\* a call in which four rules fire at once
C13_Witness ==
    /\ pc = "profiled"
    /\ C13_Types = {"KYC_NOT_DONE", "KYC_VERIFICATION_FAILED", "ACCOUNT_CLOSED", "STALE_ACCOUNT"}

\* the balance of the profiled document and the income of the customer document
C14_Balance == PyOr(to_float(Get(row.val, K_Balance)), PyFloat(0))
C14_Income == to_float(Get(vcleaned, K_AnnualIncome))

C14_Mismatch ==
    /\ vcleaned # NoDict
    /\ C14_Income.t = "float"
    /\ C14_Income.v > 0
    /\ C14_Balance.v > 10 * C14_Income.v

\* C14: generate_profile_alerts returns exactly one BALANCE_INCOME_MISMATCH
\* alert when a customer document is supplied, its AnnualIncome parses to a
\* number above 0 and the balance is strictly above ten times that income,
\* and none otherwise (no customer document, unknown or non-positive income,
\* balance equal to ten times the income).
C14_BalanceIncomeMismatch ==
    pc = "profiled" =>
        Len(OfType(alerts, "BALANCE_INCOME_MISMATCH")) = (IF C14_Mismatch THEN 1 ELSE 0)

\* balance 600000 against income 50000 alerts
C14_Witness ==
    /\ pc = "profiled"
    /\ Get(row.val, K_Balance) = PyStr(S_600000)
    /\ Get(vcleaned, K_AnnualIncome) = PyStr(S_50000)
    /\ Len(OfType(alerts, "BALANCE_INCOME_MISMATCH")) = 1

\* balance 500000 against income 50000 does not
C14_WitnessEqual ==
    /\ pc = "profiled"
    /\ Get(row.val, K_Balance) = PyStr(S_500000)
    /\ Get(vcleaned, K_AnnualIncome) = PyStr(S_50000)
    /\ OfType(alerts, "BALANCE_INCOME_MISMATCH") = <<>>

\* the open date of the profiled row and the instant five calendar years later
C15_Open == parse_ts(Get(row.val, K_AccountOpenDate))

C15_Anniversary(civil, secs) ==
    DaysFromCivil(civil.year + STALE_ACCOUNT_YEARS, civil.month, civil.day) * 86400 + secs

C15_FiveYearsOld ==
    /\ C15_Open # PyNone
    /\ C15_Anniversary(CivilFromDays(C15_Open.v \div 86400), C15_Open.v % 86400) <= Now

C15_LowBalance == FLt(C14_Balance, Rupee(STALE_ACCOUNT_BALANCE_THRESHOLD))

\* C15: generate_profile_alerts returns a STALE_ACCOUNT alert iff the open
\* date parses, the account is at least 5 calendar years old now and the
\* balance is below 100; a younger account, or one whose open date is missing
\* or unparseable, never gets it.
C15_StaleIffFiveYears ==
    pc = "profiled" =>
        ("STALE_ACCOUNT" \in C13_Types <=> C15_FiveYearsOld /\ C15_LowBalance)

\* what the code computes: whole days from the open date to now, over 365
C15_StaleIffDaysOver365 ==
    pc = "profiled" =>
        ("STALE_ACCOUNT" \in C13_Types <=>
            /\ C15_Open # PyNone
            /\ (Now - C15_Open.v) \div 86400 >= STALE_ACCOUNT_YEARS * 365
            /\ C15_LowBalance)

-----------------------------------------------------------------------------
(* Specification SpecLifecycle: main on every kind of file, customer files *)
(* included, with metadata writes that may raise                           *)

K_DOB == <<"D", "O", "B">>
H_Customers == <<"C", "u", "s", "t", "o", "m", "e", "r", "I", "D", ",", "D", "O", "B", ",", "A", "n", "n", "u", "a", "l", "I", "n", "c", "o", "m", "e">>
U_valid == <<"C", "1", ",", "1", "9", "9", "0", "-", "0", "5", "-", "0", "1", ",", "5", "0", "0", "0", "0">>
U_bad_dob == <<"C", "2", ",", "a", "b", "c", ",", "5", "0", "0", "0", "0">>
U_no_id == <<",", "1", "9", "9", "0", "-", "0", "5", "-", "0", "1", ",", "5", "0", "0", "0", "0">>
U_bad_both == <<"C", "3", ",", "a", "b", "c", ",", "a", "b", "c">>
N_customer == <<"c", "u", "s", "t", "o", "m", "e", "r", "_", "m", "a", "s", "t", "e", "r", ".", "c", "s", "v">>

validate_customer_row(r) ==
    (IF ~Truthy(strip(Get(r.val, K_CustomerID))) THEN <<"Missing CustomerID">> ELSE <<>>)
    \o (IF parse_ts(Get(r.val, K_DOB)) = PyNone THEN <<"Invalid DOB">> ELSE <<>>)
    \o (IF to_float(Get(r.val, K_AnnualIncome)) = PyNone THEN <<"Invalid AnnualIncome">> ELSE <<>>)

\* the summary of a customer batch: each row is valid or invalid by
\* validate_customer_row; the documents it writes are not modelled
CustomersSummary(rows, bad) ==
    [rows_parsed |-> Len(rows), valid |-> Len(rows) - Len(bad), invalid |-> Len(bad),
     quarantined |-> Len(bad), alerts |-> 0, bad_rows |-> <<>>, header |-> <<>>]

process_customer_profiles(text, raises) ==
    [raised |-> raises,
     result |-> CustomersSummary(parse_csv(text),
                    SelectSeq(parse_csv(text), LAMBDA r : validate_customer_row(r) # <<>>))]

CustomerLines == {U_valid, U_bad_dob, U_no_id, U_bad_both}

InitLifecycle ==
    /\ pc = "queued"
    /\ \E f \in Files \cup ({N_customer} \X FileTexts(H_Customers, CustomerLines)) :
           file_name = f[1] /\ file_text = f[2]
    /\ source_type = "UNKNOWN"
    /\ metadata = <<>>
    /\ quarantine = <<>>
    /\ container = <<>>
    /\ valid_rows = <<>>
    /\ alert_container = <<>>
    /\ result = <<>>
    /\ message = <<>>
    /\ client = <<>>
    /\ IdleValidate
    /\ IdleFraud

\* step 4 for a customer file
ProcessCustomer(raises) ==
    /\ pc = "downloaded"
    /\ source_type = "CUSTOMER"
    /\ \E p \in {process_customer_profiles(file_text, raises)} :
           IF p.raised
           THEN /\ metadata' = Append(metadata,
                                      Metadata("PROCESSOR_FAILED", {"started_at", "error"},
                                               NoResult))
                /\ pc' = "returned"
                /\ UNCHANGED result
           ELSE /\ result' = <<p.result>>
                /\ pc' = "processed"
                /\ UNCHANGED metadata
    /\ UNCHANGED <<message, client, file_name, file_text, source_type, quarantine, container, valid_rows,
                   alert_container, varsValidate, varsFraud>>

\* write_metadata_blob raises: the PROCESSING record of step 2, the
\* DOWNLOAD_FAILED record of step 3, the UNKNOWN_SOURCE record of step 4 or
\* the COMPLETED record of step 6 is not written and main raises
MetadataWriteFails ==
    /\ \/ pc \in {"queued", "started", "processed"}
       \/ pc = "downloaded" /\ source_type = "UNKNOWN"
    /\ pc' = "raised"
    /\ UNCHANGED <<varsMain, varsValidate, varsFraud>>

NextLifecycle ==
    \/ Next
    \/ \E raises \in BOOLEAN : ProcessCustomer(raises)
    \/ MetadataWriteFails

SpecLifecycle == InitLifecycle /\ [][NextLifecycle]_vars

C16_Terminal == {"COMPLETED", "DOWNLOAD_FAILED", "PROCESSOR_FAILED", "UNKNOWN_SOURCE"}

\* the PROCESSING record is the first one, written before the download
C16_ProcessingFirst ==
    pc \in {"started", "downloaded", "processed", "returned"} =>
        /\ metadata # <<>>
        /\ metadata[1].status = "PROCESSING"
        /\ (pc # "returned" => Len(metadata) = 1)

\* after main returned the last record is terminal
C16_TerminalAtReturn == pc = "returned" => LastStatus \in C16_Terminal

\* COMPLETED only after the processor returned a result
C16_CompletedAfterProcessor == LastStatus = "COMPLETED" => pc = "returned" /\ result # <<>>

\* a processor ran only on the downloaded text of a known source type
C16_ProcessorStep ==
    (result' # result \/ container' # container \/ alert_container' # alert_container
        \/ valid_rows' # valid_rows)
    => pc = "downloaded" /\ source_type # "UNKNOWN"

C16_WitnessCompleted == pc = "returned" /\ LastStatus = "COMPLETED" /\ source_type = "CUSTOMER"

C16_WitnessUnknown == pc = "returned" /\ LastStatus = "UNKNOWN_SOURCE"

C16_WitnessDownload == pc = "returned" /\ LastStatus = "DOWNLOAD_FAILED"

-----------------------------------------------------------------------------
(* C17, C18: failing upserts                                               *)

\* the outcome of the transaction processor of the file, given the faults
C17_Run(faults) ==
    IF source_type = "ATM" THEN process_atm(file_text, faults) ELSE process_upi(file_text, faults)

\* the elements of s at the positions outside faults
C17_Except(s, faults) ==
    Flatten([k \in 1..Len(s) |-> IF k \in faults THEN <<>> ELSE <<s[k]>>])

\* the step is a run of process_atm / process_upi in which the upserts of
\* some valid records, and no others, fail after the retries
C17_RecordFails(faults) ==
    /\ source_type \in {"ATM", "UPI"}
    /\ faults # {}
    /\ faults \subseteq 1..Len(C17_Run({}).container)
    /\ Process(faults)

\* the batch does not fail: the other valid records are upserted, and the
\* alerts of fraud detection on the valid rows are persisted
C17_Isolated(faults) ==
    /\ pc' = "processed"
    /\ container' = container \o C17_Except(C17_Run({}).container, faults)
    /\ alert_container' = alert_container \o C17_Run({}).alert_container

\* C17: when the upsert of one valid record of a batch fails after the
\* retries, the batch does not fail: the remaining valid records are still
\* upserted, fraud detection runs on the valid rows and its alerts are
\* persisted.
C17_RecordFailureIsolated ==
    [][\A faults \in FaultSets : C17_RecordFails(faults) => C17_Isolated(faults)]_vars

\* what the transaction processors do: the first failing upsert ends the run
\* with PROCESSOR_FAILED, the later records and all alerts are not written
C17_FirstFailureEndsRun ==
    [][\A faults \in FaultSets : C17_RecordFails(faults) =>
          /\ LastStatus' = "PROCESSOR_FAILED"
          /\ \E k \in faults :
                /\ \A j \in faults : k <= j
                /\ container' = container \o SubSeq(C17_Run({}).container, 1, k - 1)
          /\ alert_container' = alert_container]_vars

\* C18: the valid count of the batch summary, and of the COMPLETED metadata
\* record, equals the number of rows of the batch that were inserted into
\* the store; a row whose upsert failed is not counted.
C18_ValidCountsInsertedRows ==
    /\ result # <<>> => result[1].valid = Len(container)
    /\ LastStatus = "COMPLETED" => metadata[Len(metadata)].valid = Len(container)

\* for the transaction processors the count is right whenever there is one
C18_ValidCountsInsertedTransactions ==
    (result # <<>> /\ source_type \in {"ATM", "UPI"}) => result[1].valid = Len(container)

-----------------------------------------------------------------------------
(* Specification SpecRowChecks: validate_account_row and                   *)
(* validate_customer_row on one row, and the account row counted by        *)
(* process_account_profiles                                                *)

S_1000 == <<"1", "0", "0", "0">>
S_1990_05_01 == <<"1", "9", "9", "0", "-", "0", "5", "-", "0", "1">>
S_spaces == <<" ", " ">>

ProfileRowCells ==
    { << <<K_AccountNumber, acc>>, <<K_CustomerID, cust>>, <<K_Balance, bal>>,
         <<K_AccountOpenDate, open>>, <<K_DOB, dob>>, <<K_AnnualIncome, inc>> >> :
        acc \in {PyStr(S_A1), PyStr(S_spaces), PyNone},
        cust \in {PyStr(S_C1), PyStr(<<>>), PyNone},
        bal \in {PyStr(S_1000), PyStr(S_abc), PyNone},
        open \in {PyStr(S_2024_01_01), PyStr(S_abc), PyNone},
        dob \in {PyStr(S_1990_05_01), PyStr(S_abc)},
        inc \in {PyStr(S_50000), PyStr(S_abc), PyStr(<<>>)} }

InitRowChecks ==
    /\ pc = "row"
    /\ \E cells \in ProfileRowCells : row = Row(cells)
    /\ verrors = <<>>
    /\ vcleaned = NoDict
    /\ IdleFraud
    /\ IdleMain

\* errors = validate_account_row(row)
ValidateAccount ==
    /\ pc = "row"
    /\ verrors' = validate_account_row(row)
    /\ pc' = "account_checked"
    /\ UNCHANGED <<row, vcleaned, varsFraud, varsMain>>

\* errors = validate_customer_row(row)
ValidateCustomer ==
    /\ pc = "row"
    /\ verrors' = validate_customer_row(row)
    /\ pc' = "customer_checked"
    /\ UNCHANGED <<row, vcleaned, varsFraud, varsMain>>

\* process_account_profiles on the file whose only row is row
IngestAccount ==
    /\ pc = "account_checked"
    /\ \E p \in {ProfilesParsed(<<row>>, <<>>, {})} :
           /\ result' = <<p.result>>
           /\ container' = p.container
           /\ alert_container' = p.alert_container
    /\ pc' = "ingested"
    /\ UNCHANGED <<message, client, file_name, file_text, source_type, metadata, quarantine, valid_rows,
                   varsValidate, varsFraud>>

NextRowChecks == ValidateAccount \/ ValidateCustomer \/ IngestAccount

SpecRowChecks == InitRowChecks /\ [][NextRowChecks]_vars

\* the cells of the row that fail their check
C19_Blank(k) == Get(row.val, k) \in {PyStr(S_spaces), PyStr(<<>>), PyNone}
C19_NotParsed(k) == Get(row.val, k) \in {PyStr(S_abc), PyStr(<<>>), PyNone}

C19_AccountFailures ==
    { m \in {"Missing AccountNumber", "Missing CustomerID", "Invalid Balance", "Invalid AccountOpenDate"} :
        \/ m = "Missing AccountNumber" /\ C19_Blank(K_AccountNumber)
        \/ m = "Missing CustomerID" /\ C19_Blank(K_CustomerID)
        \/ m = "Invalid Balance" /\ C19_NotParsed(K_Balance)
        \/ m = "Invalid AccountOpenDate" /\ C19_NotParsed(K_AccountOpenDate) }

C19_CustomerFailures ==
    { k \in {K_CustomerID, K_DOB, K_AnnualIncome} :
        IF k = K_CustomerID THEN C19_Blank(k) ELSE C19_NotParsed(k) }

C19_Errors == { verrors[i] : i \in 1..Len(verrors) }

C19_WitnessCustomer == pc = "customer_checked" /\ Len(verrors) = 3

-----------------------------------------------------------------------------
(* C20 *)

\* the parsed rows of the file and whether validation rejected row i
C20_Rows == parse_csv(file_text)
C20_Failed(i) == validate_transaction_row(C20_Rows[i], "ATM").errors # <<>>

\* how many rows up to row i were rejected, or accepted
C20_FailedUpTo(i) == Cardinality({ j \in 1..i : C20_Failed(j) })
C20_PassedUpTo(i) == i - C20_FailedUpTo(i)

C20_Header == <<K_TransactionID, K_CustomerID, K_Amount, K_Timestamp>>

\* C20: when process_atm returns, bad_rows holds the rows of the file that
\* failed validation, in their order in the file, each as its cells in the
\* order of the header; the valid rows handed to persistence and to fraud
\* detection are the other rows, in their order in the file.
C20_RowOrderPreserved ==
    (source_type = "ATM" /\ result # <<>>) =>
        /\ C20_Rows # <<>> => result[1].header = C20_Header
        /\ Len(result[1].bad_rows) = C20_FailedUpTo(Len(C20_Rows))
        /\ Len(valid_rows) = C20_PassedUpTo(Len(C20_Rows))
        /\ Len(container) = Len(valid_rows)
        /\ \A i \in 1..Len(C20_Rows) :
              IF C20_Failed(i)
              THEN result[1].bad_rows[C20_FailedUpTo(i)]
                       = [h \in 1..4 |-> C20_Rows[i].val[C20_Header[h]]]
              ELSE /\ Get(valid_rows[C20_PassedUpTo(i)], K_TransactionID)
                          = strip(C20_Rows[i].val[K_TransactionID])
                   /\ Get(valid_rows[C20_PassedUpTo(i)], K_Amount)
                          = to_float(C20_Rows[i].val[K_Amount])
                   /\ Get(container[C20_PassedUpTo(i)], K_id)
                          = strip(C20_Rows[i].val[K_TransactionID])

\* two different rejected rows, in the order of the file
C20_Witness ==
    /\ source_type = "ATM"
    /\ result # <<>>
    /\ Len(result[1].bad_rows) = 2
    /\ result[1].bad_rows[1] # result[1].bad_rows[2]

\* two different accepted rows
C20_WitnessValid ==
    /\ source_type = "ATM"
    /\ result # <<>>
    /\ Len(valid_rows) = 2
    /\ valid_rows[1] # valid_rows[2]

-----------------------------------------------------------------------------
(* Specification SpecParseTs: parse_ts on one timestamp text               *)

D_01_02_2024 == <<"0", "1", "-", "0", "2", "-", "2", "0", "2", "4">>
D_13_02_2024 == <<"1", "3", "-", "0", "2", "-", "2", "0", "2", "4">>
D_02_13_2024 == <<"0", "2", "-", "1", "3", "-", "2", "0", "2", "4">>
D_31_12_2023 == <<"3", "1", "-", "1", "2", "-", "2", "0", "2", "3">>
D_29_02_2024 == <<"2", "9", "-", "0", "2", "-", "2", "0", "2", "4">>
D_05_05_2024 == <<"0", "5", "-", "0", "5", "-", "2", "0", "2", "4">>
D_30_02_2024 == <<"3", "0", "-", "0", "2", "-", "2", "0", "2", "4">>
D_12_11_2024 == <<"1", "2", "-", "1", "1", "-", "2", "0", "2", "4">>
C_14_dot_16 == <<" ", "1", "4", ".", "1", "6">>
C_14_16 == <<" ", "1", "4", ":", "1", "6">>
C_09_dot_05 == <<" ", "0", "9", ".", "0", "5">>
C_09_05 == <<" ", "0", "9", ":", "0", "5">>
C_14_16_30 == <<" ", "1", "4", ":", "1", "6", ":", "3", "0">>
C_14_16_plus == <<" ", "1", "4", ":", "1", "6", "+", "0", "5", ":", "3", "0">>
C_14_16_minus == <<" ", "1", "4", ":", "1", "6", "-", "0", "8", ":", "0", "0">>
C_14_16_Z == <<" ", "1", "4", ":", "1", "6", "Z">>

NumericDates == {D_01_02_2024, D_13_02_2024, D_02_13_2024, D_31_12_2023, D_29_02_2024, D_05_05_2024, D_30_02_2024, D_12_11_2024}
ClockTexts == {<<>>, C_14_dot_16, C_14_16, C_09_dot_05, C_09_05, C_14_16_30, C_14_16_plus, C_14_16_minus, C_14_16_Z}

\* the values handed to parse_ts
TimestampValues ==
    { PyStr(d \o c) : d \in NumericDates, c \in ClockTexts }
    \cup {PyNone, PyStr(<<>>), PyStr(S_abc), PyStr(S_ts_iso), PyStr(S_ts_space), PyStr(S_ts_offset)}

InitParseTs ==
    /\ pc = "text"
    /\ \E v \in TimestampValues : row = Row(<< <<K_Timestamp, v>> >>)
    /\ verrors = <<>>
    /\ vcleaned = NoDict
    /\ IdleFraud
    /\ IdleMain

\* dt = parse_ts(value)
ParseTs ==
    /\ pc = "text"
    /\ vcleaned' = Dict(<< <<K_Timestamp, parse_ts(Get(row.val, K_Timestamp))>> >>)
    /\ pc' = "parsed"
    /\ UNCHANGED <<row, verrors, varsFraud, varsMain>>

NextParseTs == ParseTs

SpecParseTs == InitParseTs /\ [][NextParseTs]_vars

\* the text parsed and the result
C21_Text == Get(row.val, K_Timestamp).s
C21_Result == Get(vcleaned, K_Timestamp)

\* the text is DD-MM-YYYY, alone or followed by HH:MM or HH.MM and an
\* optional Z or UTC offset, and names a day of the calendar day-first
C21_DayFirstText ==
    /\ Get(row.val, K_Timestamp).t = "str"
    /\ Len(C21_Text) \in {10, 16, 17, 22}
    /\ C21_Text[3] = "-"
    /\ NatOf(SubSeq(C21_Text, 4, 5)) \in 1..12
    /\ NatOf(SubSeq(C21_Text, 1, 2)) \in
           1..DaysInMonth(NatOf(SubSeq(C21_Text, 7, 10)), NatOf(SubSeq(C21_Text, 4, 5)))

C21_Clock(s) ==
    IF Len(s) = 10 THEN 0 ELSE NatOf(SubSeq(s, 12, 13)) * 3600 + NatOf(SubSeq(s, 15, 16)) * 60

C21_Offset(s) ==
    IF Len(s) # 22 THEN 0
    ELSE (IF s[17] = "-" THEN -1 ELSE 1)
         * (NatOf(SubSeq(s, 18, 19)) * 3600 + NatOf(SubSeq(s, 21, 22)) * 60)

\* the UTC instant the text names, read day-first, a dot taken as a colon
C21_DayFirstInstant(s) ==
    DaysFromCivil(NatOf(SubSeq(s, 7, 10)), NatOf(SubSeq(s, 4, 5)), NatOf(SubSeq(s, 1, 2))) * 86400
    + C21_Clock(s) - C21_Offset(s)

\* C21: parse_ts rewrites a dot between hour and minute to a colon and reads
\* NN-NN-YYYY day-first: parse_ts("01-02-2024 14.16") is 1 February 2024
\* 14:16 UTC; an empty value gives None; a result without offset is taken
\* as UTC and one with an offset is converted to UTC.
C21_DotFixedDayFirstUtc ==
    pc = "parsed" =>
        /\ ~Truthy(Get(row.val, K_Timestamp)) => C21_Result = PyNone
        /\ C21_DayFirstText => C21_Result = PyDate(C21_DayFirstInstant(C21_Text))

\* the same instant read month-first
C21_MonthFirstInstant(s) ==
    DaysFromCivil(NatOf(SubSeq(s, 7, 10)), NatOf(SubSeq(s, 1, 2)), NatOf(SubSeq(s, 4, 5))) * 86400
    + C21_Clock(s) - C21_Offset(s)

\* what parse_ts does: an empty value gives None, a text with a dot as the
\* time separator gives None, NN-NN-YYYY is read month-first unless the
\* first number is above 12, and the result is in UTC
C21_MonthFirstNoDotFix ==
    pc = "parsed" =>
        /\ ~Truthy(Get(row.val, K_Timestamp)) => C21_Result = PyNone
        /\ C21_DayFirstText =>
              C21_Result =
                 IF Len(C21_Text) >= 14 /\ C21_Text[14] = "." THEN PyNone
                 ELSE IF NatOf(SubSeq(C21_Text, 1, 2)) > 12
                 THEN PyDate(C21_DayFirstInstant(C21_Text))
                 ELSE IF NatOf(SubSeq(C21_Text, 4, 5)) >
                           DaysInMonth(NatOf(SubSeq(C21_Text, 7, 10)), NatOf(SubSeq(C21_Text, 1, 2)))
                 THEN PyNone
                 ELSE PyDate(C21_MonthFirstInstant(C21_Text))

-----------------------------------------------------------------------------
(* Specification SpecToFloat: to_float on one value                        *)

S_1_234_56_plain == <<"1", ",", "2", "3", "4", ".", "5", "6">>
S_1_5e2 == <<"1", ".", "5", "e", "2">>
S_dot5 == <<".", "5">>
S_5dot == <<"5", ".">>
S_12a == <<"1", "2", "a">>
S_1_000 == <<"1", " ", "0", "0", "0">>
S_infinity == <<"I", "n", "f", "i", "n", "i", "t", "y">>
S_1_2_3 == <<"1", ".", "2", ".", "3">>
S_comma == <<",">>
S_e5 == <<"e", "5">>

FloatSigns == {<<>>, <<"-">>, <<"+">>}
FloatPads == {<<>>, <<" ">>}
FloatBodies == {S_100, S_1_234_56_plain, S_1_5e2, S_dot5, S_5dot, S_12a, S_1_000, S_abc, S_nan, S_NaN, S_inf, S_infinity, S_1_2_3, S_comma, S_e5, <<>>}

\* the values handed to to_float
FloatValues ==
    { PyStr(p \o s \o b \o p) : p \in FloatPads, s \in FloatSigns, b \in FloatBodies }
    \cup {PyNone, Rupee(100), PyFloat(-5)}

InitToFloat ==
    /\ pc = "value"
    /\ \E v \in FloatValues : row = Row(<< <<K_Amount, v>> >>)
    /\ verrors = <<>>
    /\ vcleaned = NoDict
    /\ IdleFraud
    /\ IdleMain

\* x = to_float(value)
ToFloat ==
    /\ pc = "value"
    /\ vcleaned' = Dict(<< <<K_Amount, to_float(Get(row.val, K_Amount))>> >>)
    /\ pc' = "converted"
    /\ UNCHANGED <<row, verrors, varsFraud, varsMain>>

NextToFloat == ToFloat

SpecToFloat == InitToFloat /\ [][NextToFloat]_vars

\* the numerals among the texts, with their values in hundredths
C22_Numerals ==
    {<<S_100, 10000>>, <<S_1_234_56_plain, 123456>>, <<S_1_5e2, 15000>>, <<S_dot5, 50>>, <<S_5dot, 500>>}

\* the readings of a text as a signed numeral between optional blanks
C22_Readings(text) ==
    { t \in C22_Numerals \X FloatSigns \X FloatPads : text = t[3] \o t[2] \o t[1][1] \o t[3] }

C22_ValuesOf(text) ==
    { t[1][2] * (IF t[2] = <<"-">> THEN -1 ELSE 1) : t \in C22_Readings(text) }

C22_Value == Get(row.val, K_Amount)
C22_Result == Get(vcleaned, K_Amount)

\* C22: to_float gives None for None, for a text that is empty once commas
\* and surrounding blanks are removed, and for every text that is not a
\* number; for a numeral it gives its value, commas and surrounding blanks
\* ignored ("1,234.56" gives 1234.56, "abc" gives None).
C22_NumberOrNone ==
    pc = "converted" =>
        /\ C22_Value = PyNone => C22_Result = PyNone
        /\ C22_Value.t = "float" => C22_Result = C22_Value
        /\ C22_Value.t = "str" =>
              C22_Result = (IF C22_ValuesOf(C22_Value.s) = {} THEN PyNone
                            ELSE PyFloat(CHOOSE v \in C22_ValuesOf(C22_Value.s) : TRUE))

\* the text is nan, inf or infinity in any case, signed or not, between blanks
C22_NanOrInfText ==
    /\ C22_Value.t = "str"
    /\ \E p \in FloatPads, s \in FloatSigns, b \in {S_nan, S_NaN, S_inf, S_infinity} :
           C22_Value.s = p \o s \o b \o p

\* what to_float does: as above, except that nan, inf and infinity give the
\* float nan or an infinity
C22_NumberNanInfOrNone ==
    pc = "converted" =>
        IF C22_NanOrInfText THEN C22_Result.t \in {"nan", "inf"}
        ELSE /\ C22_Value = PyNone => C22_Result = PyNone
             /\ C22_Value.t = "float" => C22_Result = C22_Value
             /\ C22_Value.t = "str" =>
                   C22_Result = (IF C22_ValuesOf(C22_Value.s) = {} THEN PyNone
                                 ELSE PyFloat(CHOOSE v \in C22_ValuesOf(C22_Value.s) : TRUE))

-----------------------------------------------------------------------------
(* Specification SpecGrouping: rows with and without CustomerID,           *)
(* AccountNumber and a parseable Timestamp, grouped by fraud_detection     *)

MaxGroupRows == 3

GroupingCells ==
    { << <<K_TransactionID, TxnId(Len(parsed_rows) + 1)>>, <<K_CustomerID, c>>,
         <<K_AccountNumber, a>>, <<K_Amount, PyStr(S_100)>>, <<K_Timestamp, t>> >> :
        c \in {PyStr(S_C1), PyStr(<<>>)},
        a \in {PyStr(S_A1), PyNone},
        t \in {TimeText(0), TimeText(60), PyStr(S_abc)} }

NextGrouping ==
    \/ \E cells \in GroupingCells : Len(parsed_rows) < MaxGroupRows /\ AddRaw(cells)
    \/ Detect

SpecGrouping == InitFraud /\ [][NextGrouping]_vars

\* the key the row is to be grouped under
C23_Key(r) ==
    IF Get(r, K_CustomerID) \notin {PyNone, PyStr(<<>>)} THEN Get(r, K_CustomerID)
    ELSE IF Get(r, K_AccountNumber) \notin {PyNone, PyStr(<<>>)} THEN Get(r, K_AccountNumber)
    ELSE PyStr(S_UNKNOWN)

C23_Parseable(r) == Get(r, K_Timestamp) # PyStr(S_abc)

\* the places <<group, position>> of by_customer that hold the row r
C23_Places(r) ==
    { p \in { <<g, i>> : g \in 1..Len(by_customer), i \in 1..MaxGroupRows + 1 } :
        /\ p[2] <= Len(by_customer[p[1]].items)
        /\ by_customer[p[1]].items[p[2]].r = r }

C23_WitnessSorted ==
    /\ pc = "detected"
    /\ Len(parsed_rows) = 3
    /\ Len(by_customer) = 1
    /\ Len(by_customer[1].items) = 2
    /\ RowTime(parsed_rows[1]).ok /\ RowTime(parsed_rows[3]).ok
    /\ RowTime(parsed_rows[1]).secs > RowTime(parsed_rows[3]).secs

-----------------------------------------------------------------------------
(* Specification SpecRetry: one call of cosmos_client._retry_op.  Time is  *)
(* in tenths of a second.  fails is the set of attempts at which fn raises *)

_UPSERT_RETRIES == 3
_UPSERT_RETRY_BACKOFF == 5

MaxRetries == 4

varsFiles == <<file_name, file_text, source_type, metadata, quarantine, container, valid_rows, alert_container, result, message>>

IdleFiles ==
    /\ file_name = <<>>
    /\ file_text = <<>>
    /\ source_type = "UNKNOWN"
    /\ metadata = <<>>
    /\ quarantine = <<>>
    /\ container = <<>>
    /\ valid_rows = <<>>
    /\ alert_container = <<>>
    /\ result = <<>>
    /\ message = <<>>

RECURSIVE Pow2(_)
Pow2(n) == IF n = 0 THEN 1 ELSE 2 * Pow2(n - 1)

\* last_exc = None; for attempt in range(1, _UPSERT_RETRIES + 1)
InitRetry ==
    /\ pc = "retry"
    /\ \E retries \in 1..MaxRetries, fails \in SUBSET (1..MaxRetries) :
           client = [at |-> "call", retries |-> retries, fails |-> fails, attempt |-> 1,
                     calls |-> <<>>, sleeps |-> <<>>, last_exc |-> 0, raised |-> 0]
    /\ IdleFiles
    /\ IdleValidate
    /\ IdleFraud

\* return fn(*args, **kwargs): the call of this attempt returns or raises
RetryCall ==
    /\ client # <<>>
    /\ client.at = "call"
    /\ client' = [client EXCEPT !.calls = Append(@, client.attempt),
                                !.at = IF client.attempt \in client.fails THEN "except"
                                       ELSE "returned",
                                !.last_exc = IF client.attempt \in client.fails
                                             THEN client.attempt ELSE @]
    /\ UNCHANGED <<pc, varsFiles, varsValidate, varsFraud>>

\* except Exception: sleep = backoff * 2 ** (attempt - 1); time.sleep(sleep);
\* then the next attempt, or the end of the loop
RetrySleep ==
    /\ client # <<>>
    /\ client.at = "except"
    /\ client' = [client EXCEPT !.sleeps = Append(@, _UPSERT_RETRY_BACKOFF
                                                      * Pow2(client.attempt - 1)),
                                !.attempt = @ + 1,
                                !.at = IF client.attempt < client.retries THEN "call"
                                       ELSE "exhausted"]
    /\ UNCHANGED <<pc, varsFiles, varsValidate, varsFraud>>

\* raise last_exc
RetryRaise ==
    /\ client # <<>>
    /\ client.at = "exhausted"
    /\ client' = [client EXCEPT !.at = "raised", !.raised = client.last_exc]
    /\ UNCHANGED <<pc, varsFiles, varsValidate, varsFraud>>

NextRetry == RetryCall \/ RetrySleep \/ RetryRaise

SpecRetry == InitRetry /\ [][NextRetry]_vars

\* _retry_op has returned or raised
C24_Done == pc = "retry" /\ client.at \in {"returned", "raised"}

\* C24: _retry_op calls the operation at most the configured number of
\* times, attempt after attempt; it returns at the first attempt that
\* succeeds; it sleeps backoff * 2^(n-1) only between attempt n and attempt
\* n + 1, so nothing is slept after the last failed attempt; when every
\* attempt failed it raises the exception of the last attempt.
C24_BoundedRetriesFailFast ==
    pc = "retry" =>
        /\ Len(client.calls) <= client.retries
        /\ \A n \in 1..Len(client.calls) : client.calls[n] = n
        /\ \A n \in 1..Len(client.sleeps) :
              client.sleeps[n] = _UPSERT_RETRY_BACKOFF * Pow2(n - 1)
        /\ client.at = "returned" =>
              /\ Len(client.calls) \notin client.fails
              /\ \A n \in 1..(Len(client.calls) - 1) : n \in client.fails
        /\ client.at = "raised" =>
              /\ Len(client.calls) = client.retries
              /\ client.raised = client.retries
        /\ C24_Done => Len(client.sleeps) = Len(client.calls) - 1

\* what _retry_op does: as above, except that it sleeps after every failed
\* attempt, the last one included
C24_SleepsAfterEveryFailure ==
    pc = "retry" =>
        /\ Len(client.calls) <= client.retries
        /\ \A n \in 1..Len(client.calls) : client.calls[n] = n
        /\ \A n \in 1..Len(client.sleeps) :
              client.sleeps[n] = _UPSERT_RETRY_BACKOFF * Pow2(n - 1)
        /\ client.at = "returned" =>
              /\ Len(client.calls) \notin client.fails
              /\ \A n \in 1..(Len(client.calls) - 1) : n \in client.fails
              /\ Len(client.sleeps) = Len(client.calls) - 1
        /\ client.at = "raised" =>
              /\ Len(client.calls) = client.retries
              /\ client.raised = client.retries
              /\ Len(client.sleeps) = client.retries

-----------------------------------------------------------------------------
(* Specification SpecParallel: one call of upsert_items_parallel.  An item *)
(* is the number of upsert calls that fail for it before one succeeds;     *)
(* the main thread submits and collects while the pool's threads run.      *)

MaxItems == 3
MaxWorkers == 2

\* the items a caller can pass: accepted at once, accepted at the second
\* attempt, or refused at every attempt
ItemKinds == {0, 1, _UPSERT_RETRIES}

RECURSIVE ItemLists(_)
ItemLists(n) == IF n = 0 THEN {<<>>} ELSE ItemLists(n - 1) \cup {Append(l, k) : l \in {m \in ItemLists(n - 1) : Len(m) = n - 1}, k \in ItemKinds}

\* workers = workers or _UPSERT_WORKERS; successes = 0; failures = 0; futures = []
InitParallel ==
    /\ pc = "parallel"
    /\ \E items \in ItemLists(MaxItems), workers \in 1..MaxWorkers :
           client = [at |-> "submit", items |-> items, workers |-> workers,
                     future |-> [i \in 1..Len(items) |-> "none"],
                     runs |-> [i \in 1..Len(items) |-> 0],
                     calls |-> [i \in 1..Len(items) |-> 0],
                     counted |-> {}, successes |-> 0, failures |-> 0]
    /\ IdleFiles
    /\ IdleValidate
    /\ IdleFraud

\* the futures whose _worker is being run by a thread of the pool
Running(c) == {i \in 1..Len(c.items) : c.future[i] = "running"}

\* futures.append(exe.submit(_worker, itm)), item after item
Submit ==
    /\ pc = "parallel"
    /\ client.at = "submit"
    /\ \E i \in {Cardinality({j \in 1..Len(client.items) : client.future[j] # "none"}) + 1} :
           client' = IF i > Len(client.items) THEN [client EXCEPT !.at = "collect"]
                     ELSE [client EXCEPT !.future[i] = "pending"]
    /\ UNCHANGED <<pc, varsFiles, varsValidate, varsFraud>>

\* a free thread of the pool takes a pending future and enters _worker
WorkerStart ==
    /\ pc = "parallel"
    /\ Cardinality(Running(client)) < client.workers
    /\ \E i \in 1..Len(client.items) :
           /\ client.future[i] = "pending"
           /\ client' = [client EXCEPT !.future[i] = "running", !.runs[i] = @ + 1]
    /\ UNCHANGED <<pc, varsFiles, varsValidate, varsFraud>>

\* _retry_op(container.upsert_item, sanitized): one attempt of one thread;
\* the future is done when the call returns or the last attempt has failed
WorkerAttempt ==
    /\ pc = "parallel"
    /\ \E i \in Running(client) :
           client' = [client EXCEPT !.calls[i] = @ + 1,
                                    !.future[i] = IF client.calls[i] >= client.items[i] THEN "result"
                                                  ELSE IF client.calls[i] + 1 >= _UPSERT_RETRIES
                                                       THEN "exception" ELSE "running"]
    /\ UNCHANGED <<pc, varsFiles, varsValidate, varsFraud>>

\* variant: no future reports an exception
FutureException_None(c, i) == FALSE

\* ex = f.exception()
FutureException(c, i) == c.future[i] = "exception"

\* for f in as_completed(futures): failures += 1 or successes += 1
Collect ==
    /\ pc = "parallel"
    /\ client.at = "collect"
    /\ \E i \in 1..Len(client.items) :
           /\ i \notin client.counted
           /\ client.future[i] \in {"result", "exception"}
           /\ client' = [client EXCEPT !.counted = @ \cup {i},
                                       !.failures = IF FutureException(client, i) THEN @ + 1 ELSE @,
                                       !.successes = IF FutureException(client, i) THEN @ ELSE @ + 1]
    /\ UNCHANGED <<pc, varsFiles, varsValidate, varsFraud>>

\* return successes, failures
ParallelReturn ==
    /\ pc = "parallel"
    /\ client.at = "collect"
    /\ client.counted = 1..Len(client.items)
    /\ client' = [client EXCEPT !.at = "returned"]
    /\ UNCHANGED <<pc, varsFiles, varsValidate, varsFraud>>

NextParallel == Submit \/ WorkerStart \/ WorkerAttempt \/ Collect \/ ParallelReturn

SpecParallel == InitParallel /\ [][NextParallel]_vars

\* the items that no attempt of _retry_op gets accepted
C25_Refused == {i \in 1..Len(client.items) : client.items[i] >= _UPSERT_RETRIES}

\* C25: whatever the interleaving of the pool's threads, no item is handed
\* to a worker twice, and when upsert_items_parallel returns every item was
\* handed to a worker exactly once and retried on its own, successes plus
\* failures is the number of items, failures is the number of items refused
\* at every attempt, and every other item was accepted.
C25_EveryItemOnceCountsAddUp ==
    pc = "parallel" =>
        /\ \A i \in 1..Len(client.items) : client.runs[i] <= 1
        /\ client.at = "returned" =>
              /\ \A i \in 1..Len(client.items) : client.runs[i] = 1
              /\ \A i \in C25_Refused : client.calls[i] = _UPSERT_RETRIES /\ client.future[i] = "exception"
              /\ \A i \in 1..Len(client.items) \ C25_Refused : client.calls[i] = client.items[i] + 1 /\ client.future[i] = "result"
              /\ client.successes + client.failures = Len(client.items)
              /\ client.failures = Cardinality(C25_Refused)

\* a call has returned after one item was refused, one accepted at a retry
\* and one accepted at once, the refused one submitted first
C25_Witness ==
    /\ pc = "parallel"
    /\ client.at = "returned"
    /\ client.items = <<_UPSERT_RETRIES, 1, 0>>
    /\ client.workers = 2
    /\ client.successes = 2
    /\ client.failures = 1

\* two threads are inside _worker while the main thread is still submitting
C25_WitnessInterleaved ==
    /\ pc = "parallel"
    /\ client.at = "submit"
    /\ Cardinality(Running(client)) = 2
    /\ \E i \in Running(client) : client.calls[i] > 0

-----------------------------------------------------------------------------
(* Alert ids within one run of fraud_detection (SpecGeo)                    *)

\* the positions of two different alerts of the run that carry one alert_id
C26_SameId == {p \in (1..Len(alerts)) \X (1..Len(alerts)) : p[1] < p[2] /\ alerts[p[1]].alert_id = alerts[p[2]].alert_id}

\* C26: within one run of fraud_detection no two alerts carry the same
\* alert_id, so the number of alerts returned is the number of distinct
\* alert documents the run can store.
C26_AlertIdsDistinct == pc = "detected" => C26_SameId = {}

\* what fraud_detection does: two alerts of a run that share an id are
\* location-switch alerts of one customer that start at the same instant
C26_SameIdSameGeoStart ==
    pc = "detected" =>
        \A p \in C26_SameId :
            /\ alerts[p[1]].type = "GEO_LOCATION_SWITCH"
            /\ alerts[p[2]].type = "GEO_LOCATION_SWITCH"
            /\ alerts[p[1]].locations[1][2] = alerts[p[2]].locations[1][2]

-----------------------------------------------------------------------------
(* The transactions listed by a location-switch alert (SpecGeo)             *)

\* the positions in alerts of the GEO_LOCATION_SWITCH alerts of the run
C27_GeoAlerts == {k \in 1..Len(alerts) : pc = "detected" /\ alerts[k].type = "GEO_LOCATION_SWITCH"}

\* the (location, time) entry of a transaction, as an alert records it
C27_EndOf(r) == <<PyStr(LocationOf(r)), isoformat(TimeOf(r))>>

\* C27: every GEO_LOCATION_SWITCH alert lists two different transactions,
\* the first made at loc1 at t1 and the second at loc2 at t2, also when
\* several transactions of the customer share a timestamp.
C27_GeoListsThePair ==
    \A k \in C27_GeoAlerts :
        /\ Len(alerts[k].transactions) = 2
        /\ alerts[k].transactions[1] # alerts[k].transactions[2]
        /\ C27_EndOf(alerts[k].transactions[1]) = alerts[k].locations[1]
        /\ C27_EndOf(alerts[k].transactions[2]) = alerts[k].locations[2]

\* what fraud_detection does: the alert lists two transactions of the
\* customer made at t1 and at t2, each the first of its instant in the
\* group
C27_GeoListsFirstAtEachTime ==
    \A k \in C27_GeoAlerts :
        /\ Len(alerts[k].transactions) = 2
        /\ \A e \in 1..2 :
              /\ isoformat(TimeOf(alerts[k].transactions[e])) = alerts[k].locations[e][2]
              /\ \E p \in 1..Len(parsed_rows) :
                    /\ parsed_rows[p] = alerts[k].transactions[e]
                    /\ \A q \in 1..(p - 1) : GroupKey(parsed_rows[q]) = GroupKey(parsed_rows[p]) => TimeOf(parsed_rows[q]) # TimeOf(parsed_rows[p])

-----------------------------------------------------------------------------
(* Specification SpecAlertDocs: main on ATM and UPI files whose rows carry *)
(* an AccountNumber and a Location, and on files without those columns     *)

H_Located == <<"T", "r", "a", "n", "s", "a", "c", "t", "i", "o", "n", "I", "D", ",", "C", "u", "s", "t", "o", "m", "e", "r", "I", "D", ",", "A", "c", "c", "o", "u", "n", "t", "N", "u", "m", "b", "e", "r", ",", "A", "m", "o", "u", "n", "t", ",", "T", "i", "m", "e", "s", "t", "a", "m", "p", ",", "L", "o", "c", "a", "t", "i", "o", "n">>
Q_mumbai_high == <<"T", "1", ",", "C", "1", ",", "A", "1", ",", "7", "5", "0", "0", "0", ",", "2", "0", "2", "4", "-", "0", "1", "-", "0", "1", "T", "1", "0", ":", "0", "0", ":", "0", "0", ",", "M", "u", "m", "b", "a", "i">>
Q_delhi == <<"T", "2", ",", "C", "1", ",", "A", "1", ",", "1", "0", "0", ",", "2", "0", "2", "4", "-", "0", "1", "-", "0", "1", "T", "1", "0", ":", "0", "5", ":", "0", "0", ",", "D", "e", "l", "h", "i">>
Q_delhi_other == <<"T", "3", ",", "C", "1", ",", "A", "2", ",", "1", "0", "0", ",", "2", "0", "2", "4", "-", "0", "1", "-", "0", "1", "T", "1", "0", ":", "0", "5", ":", "0", "0", ",", "D", "e", "l", "h", "i">>

LocatedLines == {Q_mumbai_high, Q_delhi, Q_delhi_other}

AlertDocFiles ==
    ({N_atm, N_upi} \X FileTexts(H_Located, LocatedLines))
    \cup ({N_atm, N_upi} \X FileTexts(H_Transactions, {L_valid, L_high}))

InitAlertDocs ==
    /\ pc = "queued"
    /\ \E f \in AlertDocFiles : file_name = f[1] /\ file_text = f[2]
    /\ source_type = "UNKNOWN"
    /\ metadata = <<>>
    /\ quarantine = <<>>
    /\ container = <<>>
    /\ valid_rows = <<>>
    /\ alert_container = <<>>
    /\ result = <<>>
    /\ message = <<>>
    /\ client = <<>>
    /\ IdleValidate
    /\ IdleFraud

SpecAlertDocs == InitAlertDocs /\ [][Next]_vars

-----------------------------------------------------------------------------
(* The AccountNumber of a stored alert document (SpecAlertDocs)            *)

\* the positions in the alert container of the documents written by
\* process_atm and process_upi
C28_Docs == {k \in 1..Len(alert_container) : "alert_id" \in DOMAIN alert_container[k]}

\* the transactions in the payload of an alert document
C28_Payload(doc) == IF doc.payload.t = "dict" THEN {doc.payload.d} ELSE {doc.payload.l[k] : k \in 1..Len(doc.payload.l)}

\* the account numbers the transactions of a payload carry
C28_Accounts(doc) == {r[K_AccountNumber] : r \in {x \in C28_Payload(doc) : K_AccountNumber \in DOMAIN x}}

\* C28: every alert document stored carries the AccountNumber of a
\* transaction of its payload, and "UNKNOWN" only when no transaction of
\* the payload has one, whether the alert is about one transaction or
\* about several.
C28_AccountFromPayload ==
    \A k \in C28_Docs :
        IF C28_Accounts(alert_container[k]) = {}
        THEN alert_container[k].AccountNumber = PyStr(S_UNKNOWN)
        ELSE alert_container[k].AccountNumber \in C28_Accounts(alert_container[k])

\* what process_atm and process_upi do: the AccountNumber is taken from the
\* alert's "transaction" only, so a document about several transactions
\* carries "UNKNOWN"
C28_AccountFromSingleTransaction ==
    \A k \in C28_Docs :
        IF alert_container[k].payload.t = "dict" /\ C28_Accounts(alert_container[k]) # {}
        THEN alert_container[k].AccountNumber \in C28_Accounts(alert_container[k])
        ELSE alert_container[k].AccountNumber = PyStr(S_UNKNOWN)

\* a stored document about several transactions that all carry an account
C28_WitnessSeveral ==
    \E k \in C28_Docs :
        /\ alert_container[k].payload.t = "list"
        /\ alert_container[k].payload.l # <<>>
        /\ \A r \in C28_Payload(alert_container[k]) : K_AccountNumber \in DOMAIN r

-----------------------------------------------------------------------------
(* Specification SpecRouting: FileArrivalFunction turns the upload event   *)
(* of a blob into a queue message, and BatchIngestionFunction starts on    *)
(* that message.  What main does after the PROCESSING record is Spec.      *)

U_container == <<"h", "t", "t", "p", "s", ":", "/", "/", "b", "a", "n", "k", ".", "b", "l", "o", "b", ".", "c", "o", "r", "e", ".", "w", "i", "n", "d", "o", "w", "s", ".", "n", "e", "t", "/", "r", "a", "w", "/">>
U_folder == <<"h", "t", "t", "p", "s", ":", "/", "/", "b", "a", "n", "k", ".", "b", "l", "o", "b", ".", "c", "o", "r", "e", ".", "w", "i", "n", "d", "o", "w", "s", ".", "n", "e", "t", "/", "r", "a", "w", "/", "a", "t", "m", "/", "2", "0", "2", "4", "/">>
E_csv == <<".", "c", "s", "v">>
E_dated_csv == <<"_", "2", "0", "2", "4", ".", "c", "s", "v">>
E_CSV == <<".", "C", "S", "V">>
E_txt == <<".", "t", "x", "t">>
B_atm == <<"a", "t", "m">>
B_UPI == <<"U", "P", "I">>
B_account == <<"a", "c", "c", "o", "u", "n", "t">>
B_customer == <<"c", "u", "s", "t", "o", "m", "e", "r">>
B_customer_account == <<"c", "u", "s", "t", "o", "m", "e", "r", "_", "a", "c", "c", "o", "u", "n", "t">>
B_Account_Customers == <<"A", "c", "c", "o", "u", "n", "t", "_", "C", "u", "s", "t", "o", "m", "e", "r", "s">>
B_customer_atm == <<"c", "u", "s", "t", "o", "m", "e", "r", "_", "a", "t", "m">>
B_transactions == <<"t", "r", "a", "n", "s", "a", "c", "t", "i", "o", "n", "s">>
W_atm == <<"a", "t", "m">>
W_upi == <<"u", "p", "i">>
W_account == <<"a", "c", "c", "o", "u", "n", "t">>
W_customer == <<"c", "u", "s", "t", "o", "m", "e", "r">>

UrlPrefixes == {U_container, U_folder}
BlobStems == {B_atm, B_UPI, B_account, B_customer, B_customer_account, B_Account_Customers, B_customer_atm, B_transactions}
BlobSuffixes == {E_csv, E_dated_csv, E_CSV, E_txt}

\* url.split("/")[-1]
LastSegment(url) == SubSeq(url, 1 + Cardinality({i \in 1..Len(url) : \E j \in i..Len(url) : url[j] = "/"}), Len(url))

\* file_name.endswith(suffix)
EndsWith(s, suffix) == Len(s) >= Len(suffix) /\ SubSeq(s, Len(s) - Len(suffix) + 1, Len(s)) = suffix

\* the routing of FileArrivalFunction.main on the lower-cased name f
ArrivalSourceType(f) ==
    IF Contains(f, W_atm) THEN "ATM"
    ELSE IF Contains(f, W_upi) THEN "UPI"
    ELSE IF Contains(f, W_customer) THEN "CUSTOMER"
    ELSE IF Contains(f, W_account) THEN "ACCOUNT"
    ELSE "UNKNOWN"

\* the Event Grid events: a blob-created event with a url, or one without
InitRouting ==
    /\ pc = "event"
    /\ \/ message = [kind |-> "event", has_url |-> FALSE, url |-> <<>>]
       \/ \E p \in UrlPrefixes, b \in BlobStems, e \in BlobSuffixes :
              message = [kind |-> "event", has_url |-> TRUE, url |-> p \o b \o e]
    /\ file_name = <<>>
    /\ file_text = <<>>
    /\ source_type = "UNKNOWN"
    /\ metadata = <<>>
    /\ quarantine = <<>>
    /\ container = <<>>
    /\ valid_rows = <<>>
    /\ alert_container = <<>>
    /\ result = <<>>
    /\ client = <<>>
    /\ IdleValidate
    /\ IdleFraud

\* FileArrivalFunction.main: an event without url or a name that does not
\* end with .csv is dropped, any other is sent to the queue
FileArrival ==
    /\ pc = "event"
    /\ \E name \in {IF message.has_url THEN LastSegment(message.url) ELSE <<>>} :
           IF message.has_url /\ EndsWith(name, E_csv)
           THEN /\ message' = [kind |-> "queue", file_url |-> message.url, file_name |-> name,
                               source_type |-> ArrivalSourceType(StrLower(name))]
                /\ pc' = "sent"
           ELSE /\ message' = message
                /\ pc' = "dropped"
    /\ UNCHANGED <<client, file_name, file_text, source_type, metadata, quarantine, container,
                   valid_rows, alert_container, result, varsValidate, varsFraud>>

\* BatchIngestionFunction.main, steps 1 and 2, on the message received
Receive ==
    /\ pc = "sent"
    /\ file_name' = message.file_name
    /\ source_type' = detect_source_type(message.file_name)
    /\ metadata' = Append(metadata,
                          [Metadata("PROCESSING", {"started_at"}, NoResult)
                              EXCEPT !.source_type = source_type'])
    /\ pc' = "started"
    /\ UNCHANGED <<message, client, file_text, quarantine, container, valid_rows,
                   alert_container, result, varsValidate, varsFraud>>

NextRouting == FileArrival \/ Receive

SpecRouting == InitRouting /\ [][NextRouting]_vars

\* BatchIngestionFunction has started on a message of FileArrivalFunction
C29_Started == pc = "started" /\ message # <<>> /\ message.kind = "queue"

\* the keywords of detect_source_type in the order of the claim
C29_Order == << <<W_atm, "ATM">>, <<W_upi, "UPI">>, <<W_account, "ACCOUNT">>, <<W_customer, "CUSTOMER">> >>

\* the type of the first keyword of C29_Order that the lower-cased name holds
C29_FirstMatch(f) ==
    IF \E k \in 1..Len(C29_Order) : Contains(f, C29_Order[k][1])
    THEN C29_Order[CHOOSE k \in 1..Len(C29_Order) : Contains(f, C29_Order[k][1]) /\ \A m \in 1..(k - 1) : ~Contains(f, C29_Order[m][1])][2]
    ELSE "UNKNOWN"

\* C29: the source_type that FileArrivalFunction puts into the message is
\* the one BatchIngestionFunction derives from the name with
\* detect_source_type, which takes the first of atm, upi, account,
\* customer found in the lower-cased name and UNKNOWN when none is.
C29_MessageTypeIsIngestionType ==
    C29_Started =>
        /\ source_type = C29_FirstMatch(StrLower(file_name))
        /\ metadata[Len(metadata)].source_type = source_type
        /\ message.source_type = source_type

\* what the two functions do: detect_source_type follows the order of the
\* claim, and the message agrees with it unless the name holds both
\* customer and account and neither atm nor upi; then the message says
\* CUSTOMER and the ingestion works with ACCOUNT
C29_MessageTypeDiffersOnCustomerAccount ==
    C29_Started =>
        /\ source_type = C29_FirstMatch(StrLower(file_name))
        /\ metadata[Len(metadata)].source_type = source_type
        /\ IF /\ Contains(StrLower(file_name), W_customer)
              /\ Contains(StrLower(file_name), W_account)
              /\ ~Contains(StrLower(file_name), W_atm)
              /\ ~Contains(StrLower(file_name), W_upi)
           THEN message.source_type = "CUSTOMER" /\ source_type = "ACCOUNT"
           ELSE message.source_type = source_type

-----------------------------------------------------------------------------
(* fraud_detection on the same rows in another order (SpecDrain)            *)

\* the batch in every order
C30_Orders == {[i \in 1..Len(parsed_rows) |-> parsed_rows[p[i]]] : p \in Permutations(1..Len(parsed_rows))}

\* whether fraud_detection raises on the rows, and the ids of its alerts
C30_Outcome(f) == [raised |-> f.raised, ids |-> {f.alerts[k].alert_id : k \in 1..Len(f.alerts)}]

\* the amount of every row is a number (a balance enquiry may carry an
\* amount of zero or below)
C30_Numbers == \A k \in 1..Len(parsed_rows) : AmountOf(parsed_rows[k]).t = "float"

\* C30: the set of alert ids fraud_detection returns depends on the set of
\* rows only: the same validated rows in any other order give the same ids,
\* also with equal timestamps and with amounts of zero or below.
C30_AlertIdsOrderIndependent ==
    (pc = "detected" /\ C30_Numbers) =>
        \A o \in C30_Orders : C30_Outcome(fraud_detection(o)) = C30_Outcome(fraud_detection(parsed_rows))

\* no amount of the batch is negative
C30_PlainAmounts == C30_Numbers /\ \A k \in 1..Len(parsed_rows) : AmountOf(parsed_rows[k]).v >= 0

\* what fraud_detection does: the ids do not depend on the order when no
\* amount is negative
C30_OrderIndependentOnPlainAmounts ==
    (pc = "detected" /\ C30_PlainAmounts) =>
        \A o \in C30_Orders : C30_Outcome(fraud_detection(o)) = C30_Outcome(fraud_detection(parsed_rows))

====
